---- MODULE Spec2Model ----
(***************************************************************************)
(* Observability dashboard: the five regional source adapters, the metric  *)
(* router (data.queries), the six memoized cross-region metric operations  *)
(* (data.common_metrics) and the cache/freshness layer (data.cache_layer). *)
(*                                                                         *)
(* Conventions.  A Python dict is a record, a list a sequence.  A whole    *)
(* number is itself; a number the code rounds to one decimal is held in    *)
(* tenths (68.5 is 685, 40.0 is 400); a float column of an upstream row is *)
(* held in hundredths before the code rounds it.  Python's None in a       *)
(* numeric field is None, in a string field NoneStr.                       *)
(***************************************************************************)
EXTENDS Integers, Sequences, FiniteSets, TLC

VARIABLES
    PSYCOPG2_AVAILABLE,   \* db_connections: the psycopg2 import succeeded
    BIGQUERY_AVAILABLE,   \* db_connections: the google.cloud.bigquery import succeeded
    upstream,             \* state of each upstream store
    bigquery_client,      \* db_connections._bigquery_client is set (not None)
    now,                  \* wall clock, in seconds
    cache,                \* st.cache_data: the stored entry of each memoized operation
    session_state,        \* st.session_state["last_refresh"] of each browser session
    selection,            \* the filter set the presentation layer passes to the router
    ret                   \* the latest call and what it returned

vars == << PSYCOPG2_AVAILABLE, BIGQUERY_AVAILABLE, upstream, bigquery_client,
           now, cache, session_state, selection, ret >>

None == -1
NoneStr == "None"

\* ------------------------------------------------------------------------
\* Upstream stores
\* ------------------------------------------------------------------------

Stores == {"balochistan", "bigquery", "moawin", "rumi"}

\* "ok": reachable, tables populated.  "empty": reachable, tables hold no
\* rows.  "refused", "timeout", "auth_failure": the connect call raises.
\* "query_error": the connection opens and executing the statement raises.
UpstreamStates == {"ok", "empty", "refused", "timeout", "auth_failure", "query_error"}
ConnectFailures == {"refused", "timeout", "auth_failure"}
Unusable == ConnectFailures \cup {"query_error"}

ObsTypes == {"All Observations", "AI Only (Rumi)", "Human Only (Coaches)"}
TimePeriods == {"All Time", "Last 30 Days"}

\* ------------------------------------------------------------------------
\* Python arithmetic
\* ------------------------------------------------------------------------

\* The integer nearest to num/den, ties to the even one (Python 3 round).
RoundHalfEven(num, den) ==
    LET q == num \div den
        r == num % den
    IN  IF 2 * r > den THEN q + 1
        ELSE IF 2 * r < den THEN q
        ELSE IF q % 2 = 0 THEN q ELSE q + 1

\* round(num / den, 1), in tenths.
Round1(num, den) == RoundHalfEven(num * 10, den)

\* round(h / 100, 1) and round(h / 100, 0) for a float held in hundredths.
Round1H(h) == RoundHalfEven(h, 10)
Round0H(h) == RoundHalfEven(h, 100)

\* Python "x or 0" on a nullable number.
Or0(x) == IF x = None THEN 0 ELSE x

\* Python truthiness of a nullable number.
Truthy(x) == x # None /\ x # 0

RECURSIVE SumSeq(_)
SumSeq(s) == IF s = <<>> THEN 0 ELSE Head(s) + SumSeq(Tail(s))

RECURSIVE SumOver(_, _)
SumOver(f, S) ==
    IF S = {} THEN 0
    ELSE LET k == CHOOSE x \in S : TRUE IN f[k] + SumOver(f, S \ {k})

\* str(n) for a natural number.
Digits == <<"0", "1", "2", "3", "4", "5", "6", "7", "8", "9">>
RECURSIVE Str(_)
Str(n) == IF n < 10 THEN Digits[n + 1] ELSE Str(n \div 10) \o Digits[(n % 10) + 1]

\* dict.get(key, default)
Get(d, key, default) == IF key \in DOMAIN d THEN d[key] ELSE default

\* The rows a statement ending in "LIMIT n" yields.
Limit(rows, n) == SubSeq(rows, 1, IF n < Len(rows) THEN n ELSE Len(rows))

\* What a store answers to a statement of scripts/refresh_cache.py, written
\* <<"refresh_cache", name, grouped>>: an aggregate over the whole table is
\* one row even when the table is empty, a GROUP BY or a plain SELECT has no
\* row then.
RefreshRows(pop, sql) ==
    IF sql[3] /\ ~pop THEN << >>
    ELSE << [statement |-> sql[2], count |-> IF pop THEN 9 ELSE 0] >>

\* ------------------------------------------------------------------------
\* db_connections: Balochistan (PostgreSQL)
\* ------------------------------------------------------------------------

\* What the Balochistan store answers to each statement of
\* balochistan_queries, for a populated and for an empty observations table.
BalochistanDb(sql) ==
    LET pop == upstream["balochistan"] = "ok"
        q == sql[1]
    IN  CASE q = "refresh_cache" -> RefreshRows(pop, sql)
          [] q = "talk_time" ->
               \* "Human Only" adds "AND ai_results IS NULL" to
               \* "WHERE ai_results IS NOT NULL": no row qualifies.
               IF pop /\ sql[2] # "AND human_results IS NOT NULL AND ai_results IS NULL"
               THEN << [teacher_talk |-> 8125, student_talk |-> 625] >>
               ELSE << [teacher_talk |-> None, student_talk |-> None] >>
          [] q = "questions" ->
               IF pop THEN << [avg_open |-> 250, avg_closed |-> 750] >>
               ELSE << [avg_open |-> None, avg_closed |-> None] >>
          [] q = "observation_counts" ->
               IF pop THEN << [ai_count |-> 7, human_count |-> 3, total |-> 9] >>
               ELSE << [ai_count |-> 0, human_count |-> 0, total |-> 0] >>
          [] q = "schools" -> << [count |-> IF pop THEN 4 ELSE 0] >>
          [] q = "teachers" -> << [count |-> IF pop THEN 5 ELSE 0] >>
          [] q = "trend" ->
               IF pop THEN Limit(<< [week |-> "Week 5", ai |-> 4, human |-> 1],
                                    [week |-> "Week 6", ai |-> 3, human |-> 2] >>, sql[2])
               ELSE << >>
          [] q = "recent" ->
               IF pop THEN Limit(<< [id |-> 11, created_at |-> [date |-> "2026-02-01", time |-> "09:30"],
                                     teacher_id |-> "T9", type |-> "both", score |-> 7125],
                                    [id |-> 10, created_at |-> [date |-> NoneStr, time |-> NoneStr],
                                     teacher_id |-> "T8", type |-> "human", score |-> None] >>, sql[2])
               ELSE << >>

\* TRUE when a connection object is returned, FALSE for None.
get_balochistan_connection ==
    IF ~PSYCOPG2_AVAILABLE THEN FALSE
    ELSE upstream["balochistan"] \notin ConnectFailures

query_balochistan(sql) ==
    IF ~get_balochistan_connection THEN << >>
    ELSE IF upstream["balochistan"] = "query_error" THEN << >>
    ELSE BalochistanDb(sql)

\* ------------------------------------------------------------------------
\* balochistan_queries
\* ------------------------------------------------------------------------

BALOCHISTAN_KNOWN_VALUES ==
    [ ai_observations |-> 522, human_observations |-> 54,
      student_talk_time |-> 57, teacher_talk_time |-> 818,
      avg_open_questions |-> 19, avg_closed_questions |-> 128,
      open_question_ratio |-> 130,
      teachers |-> 34, schools |-> 95, students |-> 6598,
      fico_b |-> [B1 |-> 84, B2 |-> 80, B3 |-> 82, B4 |-> 88, B5 |-> 88,
                  B6 |-> 42, B7 |-> 62, B8 |-> 41, B9 |-> 48, B10 |-> 84,
                  B11 |-> 63, B12 |-> 90, B13 |-> 90],
      fico_c |-> [C1 |-> 82, C2 |-> 78, C3 |-> 44, C4 |-> 68, C5 |-> 68,
                  C6 |-> 85, C7 |-> 86, C8 |-> 84, C9 |-> 84, C10 |-> 90, C11 |-> 44],
      fico_d |-> [D1 |-> 44, D2 |-> 44, D3 |-> 6, D4 |-> 16, D5 |-> 11, D6 |-> 0] ]

balochistan_get_talk_time_metrics(obs_type) ==
    LET type_filter ==
            IF obs_type = "AI Only (Rumi)" THEN "AND ai_results IS NOT NULL"
            ELSE IF obs_type = "Human Only (Coaches)"
                 THEN "AND human_results IS NOT NULL AND ai_results IS NULL"
                 ELSE ""
        results == query_balochistan(<<"talk_time", type_filter>>)
    IN  IF get_balochistan_connection /\ results # << >> /\ Truthy(results[1].student_talk)
        THEN [ student_talk_time |-> Round1H(results[1].student_talk),
               teacher_talk_time |-> Round1H(results[1].teacher_talk),
               target_student_time |-> 400 ]
        ELSE [ student_talk_time |-> BALOCHISTAN_KNOWN_VALUES.student_talk_time,
               teacher_talk_time |-> BALOCHISTAN_KNOWN_VALUES.teacher_talk_time,
               target_student_time |-> 400 ]

balochistan_get_question_metrics(obs_type) ==
    LET results == query_balochistan(<<"questions">>)
    IN  IF get_balochistan_connection /\ results # << >> /\ results[1].avg_open # None
        THEN LET avg_open == Or0(results[1].avg_open)
                 avg_closed == Or0(results[1].avg_closed)
                 total == avg_open + avg_closed
             IN  [ avg_open_questions |-> Round1H(avg_open),
                   avg_closed_questions |-> Round1H(avg_closed),
                   open_question_ratio |->
                       IF total > 0 THEN Round1(avg_open * 100, total) ELSE 0 ]
        ELSE [ avg_open_questions |-> BALOCHISTAN_KNOWN_VALUES.avg_open_questions,
               avg_closed_questions |-> BALOCHISTAN_KNOWN_VALUES.avg_closed_questions,
               open_question_ratio |-> BALOCHISTAN_KNOWN_VALUES.open_question_ratio ]

\* The observation-type filter both branches of get_observation_counts apply.
BalochistanCountsFor(obs_type, ai, human) ==
    IF obs_type = "AI Only (Rumi)"
    THEN [ai_count |-> ai, human_count |-> 0, total |-> ai]
    ELSE IF obs_type = "Human Only (Coaches)"
         THEN [ai_count |-> 0, human_count |-> human, total |-> human]
         ELSE [ai_count |-> ai, human_count |-> human, total |-> ai + human]

balochistan_get_observation_counts(obs_type) ==
    LET results == query_balochistan(<<"observation_counts">>)
    IN  IF get_balochistan_connection /\ results # << >>
        THEN BalochistanCountsFor(obs_type, Or0(results[1].ai_count),
                                  Or0(results[1].human_count))
        ELSE BalochistanCountsFor(obs_type, BALOCHISTAN_KNOWN_VALUES.ai_observations,
                                  BALOCHISTAN_KNOWN_VALUES.human_observations)

\* The statement is built and never executed: the known values are returned.
balochistan_get_fico_scores ==
    [ section_b |-> BALOCHISTAN_KNOWN_VALUES.fico_b,
      section_c |-> BALOCHISTAN_KNOWN_VALUES.fico_c,
      section_d |-> BALOCHISTAN_KNOWN_VALUES.fico_d ]

balochistan_get_summary_metrics(obs_type) ==
    LET obs_counts == balochistan_get_observation_counts(obs_type)
        school_results == query_balochistan(<<"schools">>)
        teacher_results == query_balochistan(<<"teachers">>)
        section_c == balochistan_get_fico_scores.section_c
        n == Cardinality(DOMAIN section_c)
    IN  IF get_balochistan_connection
        THEN [ schools |-> IF school_results # << >> THEN school_results[1].count
                           ELSE BALOCHISTAN_KNOWN_VALUES.schools,
               teachers |-> IF teacher_results # << >> THEN teacher_results[1].count
                            ELSE BALOCHISTAN_KNOWN_VALUES.teachers,
               ai_sessions |-> obs_counts.ai_count,
               human_observations |-> obs_counts.human_count,
               avg_score |-> IF n > 0 THEN Round1(SumOver(section_c, DOMAIN section_c), n)
                             ELSE 685,
               students |-> BALOCHISTAN_KNOWN_VALUES.students ]
        ELSE [ schools |-> BALOCHISTAN_KNOWN_VALUES.schools,
               teachers |-> BALOCHISTAN_KNOWN_VALUES.teachers,
               ai_sessions |-> obs_counts.ai_count,
               human_observations |-> obs_counts.human_count,
               avg_score |-> 685,
               students |-> BALOCHISTAN_KNOWN_VALUES.students ]

balochistan_get_observation_trend(weeks) ==
    LET results == query_balochistan(<<"trend", weeks>>)
    IN  IF get_balochistan_connection /\ results # << >>
        THEN results
        ELSE << [week |-> "Week 1", ai |-> 45, human |-> 8],
                [week |-> "Week 2", ai |-> 62, human |-> 6],
                [week |-> "Week 3", ai |-> 78, human |-> 7],
                [week |-> "Week 4", ai |-> 68, human |-> 5],
                [week |-> "Week 5", ai |-> 72, human |-> 9],
                [week |-> "Week 6", ai |-> 65, human |-> 8],
                [week |-> "Week 7", ai |-> 70, human |-> 6],
                [week |-> "Week 8", ai |-> 62, human |-> 5] >>

\* score is passed through as the driver returns it (hundredths here).
balochistan_get_recent_observations(limit) ==
    LET results == query_balochistan(<<"recent", limit>>)
    IN  IF get_balochistan_connection /\ results # << >>
        THEN [ i \in 1..Len(results) |->
                 [ id |-> Str(results[i].id),
                   date |-> results[i].created_at.date,
                   teacher_id |-> results[i].teacher_id,
                   type |-> results[i].type,
                   score |-> results[i].score ] ]
        ELSE << [id |-> "1", date |-> "2026-01-20", teacher_id |-> "T001", type |-> "ai", score |-> 7250],
                [id |-> "2", date |-> "2026-01-19", teacher_id |-> "T002", type |-> "ai", score |-> 6830],
                [id |-> "3", date |-> "2026-01-18", teacher_id |-> "T003", type |-> "human", score |-> 8500],
                [id |-> "4", date |-> "2026-01-17", teacher_id |-> "T001", type |-> "ai", score |-> 7510],
                [id |-> "5", date |-> "2026-01-16", teacher_id |-> "T004", type |-> "ai", score |-> 6980] >>

\* ------------------------------------------------------------------------
\* db_connections: Islamabad (BigQuery)
\* ------------------------------------------------------------------------

\* What BigQuery answers to each statement of islamabad_queries,
\* rawalpindi_queries and common_metrics.
BigQueryDb(sql) ==
    LET pop == upstream["bigquery"] = "ok"
        q == sql[1]
    IN  CASE q = "refresh_cache" -> RefreshRows(pop, sql)
          [] q = "teacher_count" -> << [count |-> IF pop THEN 120 ELSE 0] >>
          [] q = "observation_count" -> << [count |-> IF pop THEN 60 ELSE 0] >>
          [] q = "summary" ->
               IF pop THEN << [schools |-> 6,
                               observations |-> IF sql[2] = "" THEN 60 ELSE 8,
                               avg_score |-> 7425] >>
               ELSE << [schools |-> 0, observations |-> 0, avg_score |-> None] >>
          [] q = "fico" ->
               IF pop THEN << [TOL1 |-> 7850, TOL2 |-> 7200, TOL3 |-> 0,
                               LF1 |-> 7549, LF2 |-> 7150, LF3 |-> 6500,
                               CU1 |-> 7000, CU2 |-> 6550, CU3 |-> 5800,
                               FB1 |-> 7200, FB2 |-> 6800, FB3 |-> 6200,
                               CT1 |-> 5500, CT2 |-> 4800, CT3 |-> 4200,
                               SE1 |-> 6800, SE2 |-> 6200, SE3 |-> 5800] >>
               ELSE << [TOL1 |-> None, TOL2 |-> None, TOL3 |-> None,
                        LF1 |-> None, LF2 |-> None, LF3 |-> None,
                        CU1 |-> None, CU2 |-> None, CU3 |-> None,
                        FB1 |-> None, FB2 |-> None, FB3 |-> None,
                        CT1 |-> None, CT2 |-> None, CT3 |-> None,
                        SE1 |-> None, SE2 |-> None, SE3 |-> None] >>
          [] q = "trend" ->
               IF pop THEN Limit(<< [week |-> "Week 5", ai |-> 0, human |-> 9],
                                    [week |-> "Week 6", ai |-> 0, human |-> 12] >>, sql[2])
               ELSE << >>
          [] q = "training_completion" ->
               IF pop THEN << [total_enrolled |-> 40, completed |-> 15] >>
               ELSE << [total_enrolled |-> 0, completed |-> 0] >>
          [] q = "teacher_by_region" ->
               IF pop THEN << [region |-> "Islamabad", count |-> 100],
                              [region |-> "Punjab", count |-> 20] >>
               ELSE << >>
          [] q = "program_summary" ->
               IF pop THEN << [program |-> "rawalpindi", schools |-> 21,
                               total_teachers |-> 143, students |-> None] >>
               ELSE << >>
          [] q = "unified_schools" -> << [count |-> IF pop THEN 21 ELSE 0] >>
          [] q = "unified_teachers" -> << [count |-> IF pop THEN 143 ELSE 0] >>
          [] q = "unified_students" -> << [count |-> 0] >>
          [] q = "unified_events" -> << [count |-> IF pop THEN 444 ELSE 0] >>
          [] q = "lp_usage_by_program" ->
               IF pop THEN << [program |-> "ICT", total_events |-> 50, unique_teachers |-> 8],
                              [program |-> "balochistan", total_events |-> 9, unique_teachers |-> 4],
                              \* events that carry no user_id
                              [program |-> "rawalpindi", total_events |-> 12, unique_teachers |-> 0] >>
               ELSE << >>
          [] q = "training_by_program" ->
               IF pop THEN << [program |-> "ict", total_submissions |-> 30, unique_teachers |-> 7],
                              [program |-> "rawalpindi", total_submissions |-> 5, unique_teachers |-> 2] >>
               ELSE << >>
          [] q = "events_by_program" ->
               IF pop THEN << [program |-> "ict", active_7d |-> 3, active_30d |-> 5, total_users |-> 8],
                              [program |-> "balochistan", active_7d |-> 1, active_30d |-> 1, total_users |-> 3] >>
               ELSE << >>

\* get_bigquery_client making a client at every call.
ClientPerCall ==
    IF ~BIGQUERY_AVAILABLE THEN FALSE
    ELSE upstream["bigquery"] # "auth_failure"

\* TRUE when a client object is returned, FALSE for None.  The constructor
\* raises when no credentials can be found; a client made earlier is reused.
get_bigquery_client ==
    IF ~BIGQUERY_AVAILABLE THEN FALSE
    ELSE IF bigquery_client THEN TRUE
    ELSE upstream["bigquery"] # "auth_failure"

query_islamabad(sql) ==
    IF ~get_bigquery_client THEN << >>
    ELSE IF upstream["bigquery"] \in Unusable THEN << >>
    ELSE BigQueryDb(sql)

\* ------------------------------------------------------------------------
\* islamabad_queries
\* ------------------------------------------------------------------------

ISLAMABAD_KNOWN_VALUES ==
    [ teachers |-> 9981, observations |-> 2423, training_records |-> 466000,
      schools |-> 52, students |-> 4100 ]

islamabad_get_teacher_count ==
    LET results == query_islamabad(<<"teacher_count">>)
    IN  IF results # << >>
        THEN Get(results[1], "count", ISLAMABAD_KNOWN_VALUES.teachers)
        ELSE ISLAMABAD_KNOWN_VALUES.teachers

islamabad_get_observation_count ==
    LET results == query_islamabad(<<"observation_count">>)
    IN  IF results # << >>
        THEN Get(results[1], "count", ISLAMABAD_KNOWN_VALUES.observations)
        ELSE ISLAMABAD_KNOWN_VALUES.observations

islamabad_get_summary_metrics(time_period) ==
    LET time_filter ==
            CASE time_period = "Last 7 Days" ->
                   "AND observation_date >= DATE_SUB(CURRENT_DATE(), INTERVAL 7 DAY)"
              [] time_period = "Last 30 Days" ->
                   "AND observation_date >= DATE_SUB(CURRENT_DATE(), INTERVAL 30 DAY)"
              [] time_period = "Last 90 Days" ->
                   "AND observation_date >= DATE_SUB(CURRENT_DATE(), INTERVAL 90 DAY)"
              [] time_period = "This Year" ->
                   "AND EXTRACT(YEAR FROM observation_date) = EXTRACT(YEAR FROM CURRENT_DATE())"
              [] OTHER -> ""
        results == query_islamabad(<<"summary", time_filter>>)
    IN  IF results # << >> /\ Truthy(Get(results[1], "observations", None))
        THEN [ schools |-> IF Get(results[1], "schools", 0) # 0
                           THEN Get(results[1], "schools", 0)
                           ELSE ISLAMABAD_KNOWN_VALUES.schools,
               teachers |-> islamabad_get_teacher_count,
               ai_sessions |-> 0,
               human_observations |-> Get(results[1], "observations", 0),
               avg_score |-> Round1H(Or0(Get(results[1], "avg_score", 0))),
               students |-> ISLAMABAD_KNOWN_VALUES.students ]
        ELSE [ schools |-> ISLAMABAD_KNOWN_VALUES.schools,
               teachers |-> ISLAMABAD_KNOWN_VALUES.teachers,
               ai_sessions |-> 0,
               human_observations |-> ISLAMABAD_KNOWN_VALUES.observations,
               avg_score |-> 742,
               students |-> ISLAMABAD_KNOWN_VALUES.students ]

\* round(r.get(col, 0) or 0, 0)
TeachScore(r, col) == Round0H(Or0(Get(r, col, 0)))

islamabad_get_fico_scores ==
    LET results == query_islamabad(<<"fico">>)
    IN  IF results # << >>
        THEN LET r == results[1]
             IN  [ section_b |-> [B1 |-> TeachScore(r, "TOL1"), B2 |-> TeachScore(r, "TOL2"),
                                  B3 |-> TeachScore(r, "TOL3"), B4 |-> TeachScore(r, "LF1"),
                                  B5 |-> TeachScore(r, "LF2"), B6 |-> TeachScore(r, "LF3")],
                   section_c |-> [C1 |-> TeachScore(r, "CU1"), C2 |-> TeachScore(r, "CU2"),
                                  C3 |-> TeachScore(r, "CU3"), C4 |-> TeachScore(r, "FB1"),
                                  C5 |-> TeachScore(r, "FB2"), C6 |-> TeachScore(r, "FB3")],
                   section_d |-> [D1 |-> TeachScore(r, "CT1"), D2 |-> TeachScore(r, "CT2"),
                                  D3 |-> TeachScore(r, "CT3"), D4 |-> TeachScore(r, "SE1"),
                                  D5 |-> TeachScore(r, "SE2"), D6 |-> TeachScore(r, "SE3")] ]
        ELSE [ section_b |-> [B1 |-> 78, B2 |-> 72, B3 |-> 68, B4 |-> 75, B5 |-> 71, B6 |-> 65],
               section_c |-> [C1 |-> 70, C2 |-> 65, C3 |-> 58, C4 |-> 72, C5 |-> 68, C6 |-> 62],
               section_d |-> [D1 |-> 55, D2 |-> 48, D3 |-> 42, D4 |-> 68, D5 |-> 62, D6 |-> 58] ]

islamabad_get_observation_trend(weeks) ==
    LET results == query_islamabad(<<"trend", weeks>>)
    IN  IF results # << >>
        THEN [ i \in 1..Len(results) |->
                 [week |-> results[i].week, ai |-> 0, human |-> results[i].human] ]
        ELSE << [week |-> "Week 1", ai |-> 0, human |-> 45],
                [week |-> "Week 2", ai |-> 0, human |-> 52],
                [week |-> "Week 3", ai |-> 0, human |-> 48],
                [week |-> "Week 4", ai |-> 0, human |-> 61],
                [week |-> "Week 5", ai |-> 0, human |-> 55],
                [week |-> "Week 6", ai |-> 0, human |-> 68],
                [week |-> "Week 7", ai |-> 0, human |-> 72],
                [week |-> "Week 8", ai |-> 0, human |-> 75] >>

islamabad_get_observation_counts(obs_type) ==
    IF obs_type = "AI Only (Rumi)"
    THEN [ai_count |-> 0, human_count |-> 0, total |-> 0]
    ELSE LET human_count == islamabad_get_observation_count
         IN  [ai_count |-> 0, human_count |-> human_count, total |-> human_count]

islamabad_get_talk_time_metrics(obs_type) ==
    [ student_talk_time |-> None, teacher_talk_time |-> None,
      target_student_time |-> 400,
      note |-> "Talk time data not available in TEACH observations" ]

islamabad_get_question_metrics(obs_type) ==
    [ avg_open_questions |-> None, avg_closed_questions |-> None,
      open_question_ratio |-> None,
      note |-> "Question data not available in TEACH observations" ]

islamabad_get_training_completion ==
    LET results == query_islamabad(<<"training_completion">>)
    IN  IF results # << >>
        THEN LET total == Get(results[1], "total_enrolled", 0)
                 completed == Get(results[1], "completed", 0)
             IN  [ total_enrolled |-> total, completed |-> completed,
                   completion_rate |-> IF total > 0 THEN Round1(completed * 100, total) ELSE 0 ]
        ELSE [total_enrolled |-> 0, completed |-> 0, completion_rate |-> 0]

islamabad_get_teacher_by_region ==
    LET results == query_islamabad(<<"teacher_by_region">>)
    IN  IF results # << >>
        THEN [ i \in 1..Len(results) |->
                 [region |-> Get(results[i], "region", "Unknown"),
                  count |-> Get(results[i], "count", 0)] ]
        ELSE << [region |-> "Islamabad", count |-> 145],
                [region |-> "Punjab", count |-> 5200],
                [region |-> "Sindh", count |-> 2800],
                [region |-> "KPK", count |-> 1200] >>

\* ------------------------------------------------------------------------
\* rawalpindi_queries (BigQuery unified views)
\* ------------------------------------------------------------------------

RAWALPINDI_KNOWN_VALUES ==
    [ schools |-> 260, teachers |-> 900, students |-> 37000,
      users |-> 196, events |-> 444656, coaches |-> 27 ]

rawalpindi_get_school_count ==
    LET results == query_islamabad(<<"unified_schools">>)
    IN  IF results # << >> THEN Or0(Get(results[1], "count", 0))
        ELSE RAWALPINDI_KNOWN_VALUES.schools

rawalpindi_get_teacher_count ==
    LET results == query_islamabad(<<"unified_teachers">>)
    IN  IF results # << >> THEN Or0(Get(results[1], "count", 0))
        ELSE RAWALPINDI_KNOWN_VALUES.teachers

rawalpindi_get_student_count ==
    LET results == query_islamabad(<<"unified_students">>)
    IN  IF results # << >> THEN Or0(Get(results[1], "count", 0))
        ELSE RAWALPINDI_KNOWN_VALUES.students

rawalpindi_get_event_count ==
    LET results == query_islamabad(<<"unified_events">>)
    IN  IF results # << >> THEN Or0(Get(results[1], "count", 0))
        ELSE RAWALPINDI_KNOWN_VALUES.events

rawalpindi_get_summary_metrics(time_period) ==
    LET results == query_islamabad(<<"program_summary">>)
    IN  IF results # << >>
        THEN [ schools |-> Or0(Get(results[1], "schools", 0)),
               teachers |-> Or0(Get(results[1], "total_teachers", 0)),
               ai_sessions |-> 0, human_observations |-> 0, avg_score |-> 0,
               students |-> Or0(Get(results[1], "students", 0)) ]
        ELSE [ schools |-> rawalpindi_get_school_count,
               teachers |-> rawalpindi_get_teacher_count,
               ai_sessions |-> 0, human_observations |-> 0, avg_score |-> 0,
               students |-> rawalpindi_get_student_count ]

rawalpindi_get_observation_counts(obs_type) ==
    [ ai_count |-> 0, human_count |-> 0, total |-> 0,
      note |-> "Observation data not yet available for Rawalpindi" ]

rawalpindi_get_observation_trend(weeks) == << >>

rawalpindi_get_talk_time_metrics(obs_type) ==
    [ student_talk_time |-> None, teacher_talk_time |-> None,
      target_student_time |-> 400,
      note |-> "Talk time data not available for Rawalpindi" ]

rawalpindi_get_question_metrics(obs_type) ==
    [ avg_open_questions |-> None, avg_closed_questions |-> None,
      open_question_ratio |-> None,
      note |-> "Question data not available for Rawalpindi" ]

rawalpindi_get_fico_scores ==
    [ section_b |-> << >>, section_c |-> << >>, section_d |-> << >> ]

\* ------------------------------------------------------------------------
\* db_connections: Moawin (SchoolPilot, PostgreSQL)
\* ------------------------------------------------------------------------

\* What SchoolPilot answers to each statement of moawin_queries and
\* common_metrics.  Columns SQL rounds to one decimal are multiples of 10.
MoawinDb(sql) ==
    LET pop == upstream["moawin"] = "ok"
        q == sql[1]
    IN  CASE q = "refresh_cache" -> RefreshRows(pop, sql)
          [] q = "schools" -> << [count |-> IF pop THEN 12 ELSE 0] >>
          [] q = "teachers" -> << [count |-> IF pop THEN 30 ELSE 0] >>
          [] q = "students" -> << [count |-> IF pop THEN 400 ELSE 0] >>
          [] q = "avg_attendance" -> << [avg_rate |-> IF pop THEN 9050 ELSE None] >>
          [] q = "attendance_trend" ->
               IF pop THEN Limit(<< [date |-> "2026-02-02", rate |-> 9130],
                                    [date |-> "2026-02-03", rate |-> None] >>, sql[2])
               ELSE << >>
          [] q = "student_scores" ->
               IF pop THEN << [subject |-> "English", avg_score |-> 6000, pass_rate |-> 7000, count |-> 20],
                              [subject |-> "Math", avg_score |-> 5050, pass_rate |-> None, count |-> 10] >>
               ELSE << >>
          [] q = "clusters" ->
               IF pop THEN << [cluster |-> "Islamabad East", count |-> 7],
                              [cluster |-> "Rawalpindi North", count |-> 5] >>
               ELSE << >>
          [] q = "task_completions" ->
               IF pop THEN << [total |-> 16, completed |-> 6] >>
               ELSE << [total |-> 0, completed |-> 0] >>
          [] q = "training_progress" ->
               IF pop THEN << [teachers_started |-> 9, teachers_completed |-> 4, avg_progress |-> 4525] >>
               ELSE << [teachers_started |-> 0, teachers_completed |-> 0, avg_progress |-> None] >>
          [] q = "attendance_retention" ->
               IF pop THEN << [active_7d |-> 3, active_30d |-> 8, total_schools |-> 12] >>
               ELSE << [active_7d |-> 0, active_30d |-> 0, total_schools |-> 0] >>
          [] q = "select_1" -> << [test |-> 1] >>

query_moawin_direct(sql) ==
    IF ~PSYCOPG2_AVAILABLE THEN << >>
    ELSE IF upstream["moawin"] \in Unusable THEN << >>
    ELSE MoawinDb(sql)

\* ------------------------------------------------------------------------
\* moawin_queries
\* ------------------------------------------------------------------------

MOAWIN_KNOWN_VALUES ==
    [ schools |-> 236, teachers |-> 602, students |-> 18758,
      attendance_records |-> 10603 ]

run_mcp_query(sql) ==
    LET results == query_moawin_direct(sql)
    IN  IF results # << >> THEN results ELSE << >>

\* float(x) of a column SQL has rounded to one decimal, in tenths.
FloatTenths(h) == h \div 10

moawin_get_school_count ==
    LET results == run_mcp_query(<<"schools">>)
    IN  IF results # << >> THEN Get(results[1], "count", MOAWIN_KNOWN_VALUES.schools)
        ELSE MOAWIN_KNOWN_VALUES.schools

moawin_get_teacher_count ==
    LET results == run_mcp_query(<<"teachers">>)
    IN  IF results # << >> THEN Get(results[1], "count", MOAWIN_KNOWN_VALUES.teachers)
        ELSE MOAWIN_KNOWN_VALUES.teachers

moawin_get_student_count ==
    LET results == run_mcp_query(<<"students">>)
    IN  IF results # << >> THEN Get(results[1], "count", MOAWIN_KNOWN_VALUES.students)
        ELSE MOAWIN_KNOWN_VALUES.students

moawin_get_summary_metrics(time_period) ==
    LET results == run_mcp_query(<<"avg_attendance">>)
        \* 87.5 is held in hundredths here, like the column it replaces
        avg_attendance == IF results # << >> THEN Get(results[1], "avg_rate", 8750) ELSE 8750
    IN  [ schools |-> moawin_get_school_count,
          teachers |-> moawin_get_teacher_count,
          students |-> moawin_get_student_count,
          ai_sessions |-> 0,
          human_observations |-> 0,
          avg_score |-> IF Truthy(avg_attendance) THEN FloatTenths(avg_attendance) ELSE 875,
          attendance_records |-> MOAWIN_KNOWN_VALUES.attendance_records ]

moawin_get_attendance_trend(days) ==
    LET results == run_mcp_query(<<"attendance_trend", days>>)
    IN  IF results # << >>
        THEN [ i \in 1..Len(results) |->
                 [ date |-> results[i].date,
                   rate |-> IF Truthy(Get(results[i], "rate", None))
                            THEN FloatTenths(results[i].rate) ELSE 0 ] ]
        ELSE << [date |-> "2026-01-15", rate |-> 875],
                [date |-> "2026-01-16", rate |-> 892],
                [date |-> "2026-01-17", rate |-> 858],
                [date |-> "2026-01-20", rate |-> 913],
                [date |-> "2026-01-21", rate |-> 887],
                [date |-> "2026-01-22", rate |-> 864],
                [date |-> "2026-01-23", rate |-> 901] >>

moawin_get_student_scores_by_subject ==
    LET results == run_mcp_query(<<"student_scores">>)
    IN  IF results # << >>
        THEN [ i \in 1..Len(results) |->
                 [ subject |-> Get(results[i], "subject", "Unknown"),
                   avg_score |-> IF Truthy(Get(results[i], "avg_score", None))
                                 THEN FloatTenths(results[i].avg_score) ELSE 0,
                   pass_rate |-> IF Truthy(Get(results[i], "pass_rate", None))
                                 THEN FloatTenths(results[i].pass_rate) ELSE 0,
                   count |-> Get(results[i], "count", 0) ] ]
        ELSE << [subject |-> "English", avg_score |-> 685, pass_rate |-> 723, count |-> 2450],
                [subject |-> "Math", avg_score |-> 652, pass_rate |-> 681, count |-> 2380],
                [subject |-> "Urdu", avg_score |-> 718, pass_rate |-> 785, count |-> 2410],
                [subject |-> "Science", avg_score |-> 624, pass_rate |-> 642, count |-> 1820] >>

moawin_get_schools_by_cluster ==
    LET results == run_mcp_query(<<"clusters">>)
    IN  IF results # << >>
        THEN [ i \in 1..Len(results) |->
                 [cluster |-> Get(results[i], "cluster", "Unknown"),
                  count |-> Get(results[i], "count", 0)] ]
        ELSE << [cluster |-> "Rawalpindi Central", count |-> 45],
                [cluster |-> "Islamabad East", count |-> 38],
                [cluster |-> "Islamabad West", count |-> 32],
                [cluster |-> "Rawalpindi North", count |-> 28] >>

moawin_get_task_completion_rate ==
    LET results == run_mcp_query(<<"task_completions">>)
    IN  IF results # << >>
        THEN LET total == Get(results[1], "total", 0)
                 completed == Get(results[1], "completed", 0)
             IN  [ total_tasks |-> total, completed |-> completed,
                   completion_rate |-> IF total > 0 THEN Round1(completed * 100, total) ELSE 0 ]
        ELSE [total_tasks |-> 0, completed |-> 0, completion_rate |-> 0]

moawin_get_training_progress ==
    LET results == run_mcp_query(<<"training_progress">>)
    IN  IF results # << >>
        THEN [ teachers_started |-> Get(results[1], "teachers_started", 0),
               teachers_completed |-> Get(results[1], "teachers_completed", 0),
               avg_progress |-> Round1H(Or0(Get(results[1], "avg_progress", 0))) ]
        ELSE [teachers_started |-> 0, teachers_completed |-> 0, avg_progress |-> 0]

moawin_get_observation_counts(obs_type) ==
    [ ai_count |-> 0, human_count |-> 0, total |-> 0,
      note |-> "SchoolPilot is a compliance platform, not an observation system" ]

moawin_get_talk_time_metrics(obs_type) ==
    [ student_talk_time |-> None, teacher_talk_time |-> None,
      target_student_time |-> 400,
      note |-> "Talk time data not available in SchoolPilot" ]

moawin_get_question_metrics(obs_type) ==
    [ avg_open_questions |-> None, avg_closed_questions |-> None,
      open_question_ratio |-> None,
      note |-> "Question data not available in SchoolPilot" ]

\* ------------------------------------------------------------------------
\* db_connections: Rumi (Supabase, PostgreSQL)
\* ------------------------------------------------------------------------

\* What the Rumi store answers to each statement of rumi_queries.
RumiDb(sql) ==
    LET pop == upstream["rumi"] = "ok"
        q == sql[1]
    IN  CASE q = "refresh_cache" -> RefreshRows(pop, sql)
          [] q = "users" ->
               << [count |-> IF ~pop THEN 0 ELSE IF sql[2] = "" THEN 50 ELSE 6] >>
          [] q = "coaching" ->
               << [count |-> IF ~pop THEN 0 ELSE IF sql[2] = "" THEN 14 ELSE 2] >>
          [] q = "chats" ->
               << [count |-> IF ~pop THEN 0 ELSE IF sql[2] = "" THEN 90 ELSE 11] >>
          [] q = "schools" -> << [count |-> IF pop THEN 5 ELSE 0] >>
          [] q = "coaching_counts" ->
               IF pop THEN << [completed |-> 14, total |-> 17] >>
               ELSE << [completed |-> 0, total |-> 0] >>
          [] q = "recent" ->
               IF pop THEN Limit(<< [id |-> 31, created_at |-> [date |-> "2026-02-04", time |-> "11:00"],
                                     status |-> "completed", audio_duration_seconds |-> 300,
                                     total_cost |-> None, teacher_name |-> "Teacher Z",
                                     school_name |-> "School Q"],
                                    [id |-> 30, created_at |-> [date |-> NoneStr, time |-> NoneStr],
                                     status |-> NoneStr, audio_duration_seconds |-> None,
                                     total_cost |-> 125, teacher_name |-> NoneStr,
                                     school_name |-> NoneStr] >>, sql[2])
               ELSE << >>
          [] q = "conversations" ->
               IF pop THEN << [total_messages |-> 70, avg_per_session |-> 810,
                               active_7d |-> 4, active_30d |-> 9] >>
               ELSE << [total_messages |-> 0, avg_per_session |-> None,
                        active_7d |-> 0, active_30d |-> 0] >>
          [] q = "lesson_plans" ->
               IF pop THEN << [total |-> 25, unique_teachers |-> 4] >>
               ELSE << [total |-> 0, unique_teachers |-> 0] >>
          [] q = "trend" ->
               IF pop THEN Limit(<< [week |-> "Week 5", ai |-> 6, human |-> 0],
                                    [week |-> "Week 6", ai |-> 8, human |-> 0] >>, sql[2])
               ELSE << >>

\* TRUE when a connection object is returned, FALSE for None.
get_rumi_connection ==
    IF ~PSYCOPG2_AVAILABLE THEN FALSE
    ELSE upstream["rumi"] \notin ConnectFailures

query_rumi(sql) ==
    IF ~get_rumi_connection THEN << >>
    ELSE IF upstream["rumi"] = "query_error" THEN << >>
    ELSE RumiDb(sql)

\* ------------------------------------------------------------------------
\* rumi_queries
\* ------------------------------------------------------------------------

RUMI_KNOWN_VALUES ==
    [ users |-> 1871, conversations |-> 40728, chat_sessions |-> 5044,
      coaching_sessions |-> 135, lesson_plans |-> 1815,
      reading_assessments |-> 197, audio_sessions |-> 5241 ]

rumi_get_summary_metrics(time_period) ==
    LET time_filter ==
            CASE time_period = "Last 7 Days" -> "AND created_at > NOW() - INTERVAL '7 days'"
              [] time_period = "Last 30 Days" -> "AND created_at > NOW() - INTERVAL '30 days'"
              [] time_period = "Last 90 Days" -> "AND created_at > NOW() - INTERVAL '90 days'"
              [] time_period = "This Year" ->
                   "AND EXTRACT(YEAR FROM created_at) = EXTRACT(YEAR FROM NOW())"
              [] OTHER -> ""
        user_results == query_rumi(<<"users", time_filter>>)
        coaching_results == query_rumi(<<"coaching", time_filter>>)
        chat_results == query_rumi(<<"chats", time_filter>>)
        school_results == query_rumi(<<"schools">>)
    IN  [ schools |-> IF school_results # << >> THEN school_results[1].count ELSE 0,
          teachers |-> IF user_results # << >> THEN user_results[1].count
                       ELSE RUMI_KNOWN_VALUES.users,
          ai_sessions |-> IF coaching_results # << >> THEN coaching_results[1].count
                          ELSE RUMI_KNOWN_VALUES.coaching_sessions,
          human_observations |-> 0,
          avg_score |-> 0,
          students |-> 0,
          chat_sessions |-> IF chat_results # << >> THEN chat_results[1].count
                            ELSE RUMI_KNOWN_VALUES.chat_sessions,
          lesson_plans |-> RUMI_KNOWN_VALUES.lesson_plans ]

rumi_get_observation_counts(obs_type) ==
    IF obs_type = "Human Only (Coaches)"
    THEN [ai_count |-> 0, human_count |-> 0, total |-> 0]
    ELSE LET results == query_rumi(<<"coaching_counts">>)
         IN  IF results # << >>
             THEN LET ai_count == Or0(Get(results[1], "completed", 0))
                  IN  [ai_count |-> ai_count, human_count |-> 0, total |-> ai_count]
             ELSE [ ai_count |-> RUMI_KNOWN_VALUES.coaching_sessions,
                    human_count |-> 0,
                    total |-> RUMI_KNOWN_VALUES.coaching_sessions ]

\* cost is float(total_cost or 0), in hundredths.
rumi_get_recent_sessions(limit) ==
    LET results == query_rumi(<<"recent", limit>>)
    IN  IF results # << >>
        THEN [ i \in 1..Len(results) |->
                 [ id |-> Str(results[i].id),
                   date |-> results[i].created_at.date,
                   teacher_id |-> Get(results[i], "teacher_name", "Unknown"),
                   type |-> "ai",
                   score |-> 0,
                   status |-> Get(results[i], "status", "unknown"),
                   duration |-> Get(results[i], "audio_duration_seconds", 0),
                   cost |-> Or0(Get(results[i], "total_cost", 0)),
                   school |-> Get(results[i], "school_name", "") ] ]
        ELSE << [id |-> "1", date |-> "2026-02-04", teacher_id |-> "Teacher A",
                 type |-> "ai", score |-> 0, status |-> "completed"],
                [id |-> "2", date |-> "2026-02-03", teacher_id |-> "Teacher B",
                 type |-> "ai", score |-> 0, status |-> "completed"],
                [id |-> "3", date |-> "2026-02-02", teacher_id |-> "Teacher C",
                 type |-> "ai", score |-> 0, status |-> "completed"] >>

rumi_get_conversation_metrics ==
    LET results == query_rumi(<<"conversations">>)
    IN  IF results # << >>
        THEN [ total_messages |-> Or0(Get(results[1], "total_messages", 0)),
               avg_per_session |-> FloatTenths(Or0(Get(results[1], "avg_per_session", 0))),
               active_users_7d |-> Or0(Get(results[1], "active_7d", 0)),
               active_users_30d |-> Or0(Get(results[1], "active_30d", 0)) ]
        ELSE [ total_messages |-> RUMI_KNOWN_VALUES.conversations,
               avg_per_session |-> 81,
               active_users_7d |-> 0,
               active_users_30d |-> 0 ]

rumi_get_lesson_plan_metrics ==
    LET results == query_rumi(<<"lesson_plans">>)
    IN  IF results # << >>
        THEN [ total_plans |-> Or0(Get(results[1], "total", 0)),
               unique_teachers |-> Or0(Get(results[1], "unique_teachers", 0)) ]
        ELSE [ total_plans |-> RUMI_KNOWN_VALUES.lesson_plans,
               unique_teachers |-> 0 ]

rumi_get_observation_trend(weeks) ==
    LET results == query_rumi(<<"trend", weeks>>)
    IN  IF results # << >>
        THEN [ i \in 1..Len(results) |->
                 [week |-> results[i].week, ai |-> results[i].ai, human |-> 0] ]
        ELSE << [week |-> "Week 1", ai |-> 15, human |-> 0],
                [week |-> "Week 2", ai |-> 18, human |-> 0],
                [week |-> "Week 3", ai |-> 22, human |-> 0],
                [week |-> "Week 4", ai |-> 17, human |-> 0] >>

rumi_get_talk_time_metrics(obs_type) ==
    [ student_talk_time |-> None, teacher_talk_time |-> None,
      target_student_time |-> 400,
      note |-> "Talk time data not available in Rumi (chat-based coaching)" ]

rumi_get_question_metrics(obs_type) ==
    [ avg_open_questions |-> None, avg_closed_questions |-> None,
      open_question_ratio |-> None,
      note |-> "Question data not available in Rumi (chat-based coaching)" ]

rumi_get_fico_scores ==
    [ section_b |-> << >>, section_c |-> << >>, section_d |-> << >>,
      note |-> "FICO scoring not available in Rumi" ]

\* ------------------------------------------------------------------------
\* common_metrics: the six cross-region metric operations
\* ------------------------------------------------------------------------

\* A TTL of sixteen hours.
TTL_SixteenHours == 2 * 28800

CACHE_TTL == 28800

REGIONS == <<"ICT", "Balochistan", "RWP", "Moawin", "Rumi">>

\* OBSERVATION_BENCHMARKS with Rawalpindi's 23 AEOs as its coaches, the four
\* Training Managers left out.
BenchmarksAeosOnly ==
    [ ICT |-> [coaches |-> 55, obs_per_day |-> 4, working_days_per_month |-> 22],
      RWP |-> [coaches |-> 23, obs_per_day |-> 4, working_days_per_month |-> 22] ]

OBSERVATION_BENCHMARKS ==
    [ ICT |-> [coaches |-> 55, obs_per_day |-> 4, working_days_per_month |-> 22],
      RWP |-> [coaches |-> 27, obs_per_day |-> 4, working_days_per_month |-> 22] ]

\* str.lower() on the program names the unified views hold.
Lower(str) ==
    CASE str = "ICT" -> "ict"
      [] str = "Balochistan" -> "balochistan"
      [] str = "Rawalpindi" -> "rawalpindi"
      [] OTHER -> str

\* bq_data.get(bq_key, {}): the last row of the program, or the empty dict.
RECURSIVE ProgramRow(_, _)
ProgramRow(rows, bq_key) ==
    IF rows = << >> THEN << >>
    ELSE LET r == rows[Len(rows)]
         IN  IF Lower(Get(r, "program", "")) = bq_key THEN r
             ELSE ProgramRow(SubSeq(rows, 1, Len(rows) - 1), bq_key)

get_observation_metrics ==
    LET ict_obs == islamabad_get_observation_counts("All Observations")
        bm == OBSERVATION_BENCHMARKS["ICT"]
        bal_obs == balochistan_get_observation_counts("All Observations")
        bm_rwp == OBSERVATION_BENCHMARKS["RWP"]
        rumi_obs == rumi_get_observation_counts("All Observations")
    IN  [ ICT |-> [ actual |-> Get(ict_obs, "total", 2423),
                    benchmark_monthly |-> bm.coaches * bm.obs_per_day * bm.working_days_per_month,
                    type |-> "Human (TEACH)",
                    status |-> "active" ],
          Balochistan |-> [ actual |-> Get(bal_obs, "total", 576),
                            ai |-> Get(bal_obs, "ai_count", 522),
                            human |-> Get(bal_obs, "human_count", 54),
                            benchmark_monthly |-> None,
                            type |-> "AI + Human",
                            status |-> "active" ],
          RWP |-> [ actual |-> 0,
                    benchmark_monthly |->
                        bm_rwp.coaches * bm_rwp.obs_per_day * bm_rwp.working_days_per_month,
                    type |-> NoneStr,
                    status |-> "launching_q2_2026" ],
          Moawin |-> [ actual |-> None,
                       benchmark_monthly |-> None,
                       type |-> NoneStr,
                       status |-> "not_applicable" ],
          Rumi |-> [ actual |-> Get(rumi_obs, "ai_count", 135),
                     benchmark_monthly |-> None,
                     type |-> "AI Audio Coaching",
                     status |-> "active" ] ]

\* ProgramEngagement dividing by max(teachers, 1) in place of the guard.
ProgramEngagementPerOne(bq_results, bq_key, field) ==
    LET d == ProgramRow(bq_results, bq_key)
        total == IF d = << >> THEN 0 ELSE Or0(Get(d, field, 0))
        teachers == IF d = << >> THEN 0 ELSE Or0(Get(d, "unique_teachers", 0))
    IN  [ total |-> total,
          unique_teachers |-> teachers,
          per_teacher |-> Round1(total, IF teachers > 0 THEN teachers ELSE 1),
          status |-> IF total > 0 THEN "active" ELSE "no_data" ]

\* One BigQuery-program record of get_lp_engagement_metrics /
\* get_training_metrics; `field` names the total column.
ProgramEngagement(bq_results, bq_key, field) ==
    LET d == ProgramRow(bq_results, bq_key)
        total == IF d = << >> THEN 0 ELSE Or0(Get(d, field, 0))
        teachers == IF d = << >> THEN 0 ELSE Or0(Get(d, "unique_teachers", 0))
    IN  [ total |-> total,
          unique_teachers |-> teachers,
          per_teacher |-> IF teachers > 0 THEN Round1(total, teachers) ELSE 0,
          status |-> IF total > 0 THEN "active" ELSE "no_data" ]

get_lp_engagement_metrics ==
    LET bq_results == query_islamabad(<<"lp_usage_by_program">>)
        lp(bq_key) ==
            LET e == ProgramEngagement(bq_results, bq_key, "total_events")
            IN  [ total_events |-> e.total, unique_teachers |-> e.unique_teachers,
                  per_teacher |-> e.per_teacher, status |-> e.status ]
        moawin_tasks == moawin_get_task_completion_rate
        rumi_lp == rumi_get_lesson_plan_metrics
        total == Get(rumi_lp, "total_plans", 1815)
        teachers == Get(rumi_lp, "unique_teachers", 0)
    IN  [ ICT |-> lp("ict"),
          Balochistan |-> lp("balochistan"),
          RWP |-> lp("rawalpindi"),
          Moawin |-> [ total_events |-> Get(moawin_tasks, "total_tasks", 2280),
                       unique_teachers |-> 0,
                       per_teacher |-> 0,
                       type |-> "Task Completions",
                       status |-> "active" ],
          Rumi |-> [ total_events |-> total,
                     unique_teachers |-> teachers,
                     per_teacher |-> IF teachers > 0 THEN Round1(total, teachers) ELSE 0,
                     type |-> "AI-Generated Plans",
                     status |-> "active" ] ]

get_training_metrics ==
    LET bq_results == query_islamabad(<<"training_by_program">>)
        tr(bq_key) ==
            LET e == ProgramEngagement(bq_results, bq_key, "total_submissions")
            IN  [ total_submissions |-> e.total, unique_teachers |-> e.unique_teachers,
                  per_teacher |-> e.per_teacher, status |-> e.status ]
        moawin_training == moawin_get_training_progress
    IN  [ ICT |-> tr("ict"),
          Balochistan |-> tr("balochistan"),
          RWP |-> tr("rawalpindi"),
          Moawin |-> [ total_submissions |-> Get(moawin_training, "teachers_started", 0),
                       unique_teachers |-> Get(moawin_training, "teachers_completed", 0),
                       per_teacher |-> 0,
                       avg_progress |-> Get(moawin_training, "avg_progress", 0),
                       status |-> "active" ],
          Rumi |-> [ total_submissions |-> None,
                     unique_teachers |-> None,
                     per_teacher |-> None,
                     status |-> "not_applicable" ] ]

\* The retention fields computed from (active_7d, active_30d, total).
RetentionOf(a7, a30, total) ==
    [ active_7d |-> a7, active_30d |-> a30, total_users |-> total,
      retention_7d |-> IF total > 0 THEN Round1(a7 * 100, total) ELSE 0,
      retention_30d |-> IF total > 0 THEN Round1(a30 * 100, total) ELSE 0 ]

get_retention_metrics ==
    LET bq_results == query_islamabad(<<"events_by_program">>)
        ret_of(bq_key) ==
            LET r == ProgramRow(bq_results, bq_key)
                d == IF r = << >> THEN RetentionOf(0, 0, 0)
                     ELSE RetentionOf(Or0(Get(r, "active_7d", 0)),
                                      Or0(Get(r, "active_30d", 0)),
                                      Or0(Get(r, "total_users", 0)))
            IN  d @@ [status |-> "active"]
        moawin_results == query_moawin_direct(<<"attendance_retention">>)
        conv == rumi_get_conversation_metrics
        total_users == 1871
    IN  [ ICT |-> ret_of("ict"),
          Balochistan |-> ret_of("balochistan"),
          RWP |-> ret_of("rawalpindi"),
          Moawin |->
              IF moawin_results # << >> /\ Truthy(Get(moawin_results[1], "total_schools", None))
              THEN RetentionOf(Or0(Get(moawin_results[1], "active_7d", 0)),
                               Or0(Get(moawin_results[1], "active_30d", 0)),
                               Or0(Get(moawin_results[1], "total_schools", 0)))
                   @@ [type |-> "School attendance", status |-> "active"]
              ELSE [ active_7d |-> 0, active_30d |-> 0, total_users |-> 236,
                     retention_7d |-> 0, retention_30d |-> 0,
                     type |-> "School attendance", status |-> "active" ],
          Rumi |-> RetentionOf(Get(conv, "active_users_7d", 0),
                               Get(conv, "active_users_30d", 0), total_users)
                   @@ [type |-> "Chat sessions", status |-> "active"] ]

\* round(sum(vals) / len(vals), 1) if vals else 0, vals the truthy scores.
SectionAvg(section) ==
    LET ks == {k \in DOMAIN section : section[k] # 0}
    IN  IF ks # {} THEN Round1(SumOver(section, ks), Cardinality(ks)) ELSE 0

\* FicoRecord with a scored region tagged "ok".
FicoRecordTaggedOk(fico, type) ==
    IF DOMAIN Get(fico, "section_b", << >>) # {}
    THEN [ section_b |-> fico.section_b,
           section_c |-> fico.section_c,
           section_d |-> fico.section_d,
           type |-> type,
           status |-> "ok" ]
    ELSE [status |-> "no_data"]

\* One region's record of get_fico_metrics from its adapter's scores.
FicoRecord(fico, type) ==
    IF DOMAIN Get(fico, "section_b", << >>) # {}
    THEN [ section_b |-> fico.section_b,
           section_c |-> fico.section_c,
           section_d |-> fico.section_d,
           b_avg |-> SectionAvg(fico.section_b),
           c_avg |-> SectionAvg(fico.section_c),
           d_avg |-> SectionAvg(fico.section_d),
           type |-> type,
           status |-> "active" ]
    ELSE [status |-> "no_data"]

get_fico_metrics ==
    [ ICT |-> FicoRecord(islamabad_get_fico_scores, "TEACH Tool (Human)"),
      Balochistan |-> FicoRecord(balochistan_get_fico_scores, "AI (Rumi) + Human"),
      RWP |-> [status |-> "no_data"],
      Moawin |-> [status |-> "not_applicable"],
      Rumi |-> [status |-> "not_applicable"] ]

\* effect_size 0.46 is held in hundredths.
get_student_learning_metrics ==
    LET scores == moawin_get_student_scores_by_subject
        n == Len(scores)
    IN  [ ICT |-> [ type |-> "RCT Effect Size",
                    effect_size |-> 46,
                    description |-> "0.46 SD improvement (Cohen's d) from teacher certification",
                    status |-> "active" ],
          Balochistan |-> [status |-> "no_data"],
          RWP |-> [status |-> "no_data"],
          Moawin |->
              IF scores # << >>
              THEN [ type |-> "Assessment Scores",
                     subjects |-> scores,
                     avg_score |-> RoundHalfEven(SumSeq([i \in 1..n |-> scores[i].avg_score]), n),
                     avg_pass_rate |-> RoundHalfEven(SumSeq([i \in 1..n |-> scores[i].pass_rate]), n),
                     total_assessments |-> SumSeq([i \in 1..n |-> scores[i].count]),
                     status |-> "active" ]
              ELSE [status |-> "no_data"],
          Rumi |-> [ type |-> "WCPM Reading Assessment",
                     total_assessments |-> 197,
                     description |-> "197 Words Correct Per Minute reading assessments",
                     status |-> "active" ] ]

\* ------------------------------------------------------------------------
\* queries: the metric router
\*
\* Each router operation yields [value, calls]: what it returns and the
\* adapter operations it invoked, in order, with the arguments it passed.
\* A default argument the router leaves out is recorded as "<default>".
\* ------------------------------------------------------------------------

Invoke(module, op, args) == [module |-> module, op |-> op, args |-> args]

Routed(value, calls) == [value |-> value, calls |-> calls]

\* "Coming Soon" in str(region), over the region selectors modelled.
ComingSoonIn(region) == region \in {"Rawalpindi (Coming Soon)"}

queries_get_summary_metrics(filters) ==
    LET region == Get(filters, "region", "Combined")
        time_period == Get(filters, "time_period", "All Time")
        obs_type == Get(filters, "observation_type", "All Observations")
        bal == balochistan_get_summary_metrics(obs_type)
        mow == moawin_get_summary_metrics(time_period)
        isl == islamabad_get_summary_metrics(time_period)
        bal_call == Invoke("balochistan_queries", "get_summary_metrics", <<obs_type>>)
        mow_call == Invoke("moawin_queries", "get_summary_metrics", <<time_period>>)
        isl_call == Invoke("islamabad_queries", "get_summary_metrics", <<time_period>>)
    IN  CASE region = "Balochistan" -> Routed(bal, <<bal_call>>)
          [] region = "Moawin" -> Routed(mow, <<mow_call>>)
          [] region = "Islamabad" -> Routed(isl, <<isl_call>>)
          [] region = "Rawalpindi" \/ ComingSoonIn(region) ->
               Routed([ schools |-> 0, teachers |-> 0, ai_sessions |-> 0,
                        human_observations |-> 0, avg_score |-> 0, students |-> 0,
                        note |-> "Rawalpindi data coming soon" ], << >>)
          [] region = "Combined" ->
               Routed([ schools |-> bal.schools + mow.schools + isl.schools,
                        teachers |-> bal.teachers + mow.teachers + isl.teachers,
                        ai_sessions |-> bal.ai_sessions,
                        human_observations |-> bal.human_observations + isl.human_observations,
                        avg_score |-> RoundHalfEven(bal.avg_score + mow.avg_score + isl.avg_score, 3),
                        students |-> bal.students + mow.students + isl.students ],
                      <<bal_call, mow_call, isl_call>>)
          [] OTHER -> Routed(<< >>, << >>)

queries_get_fico_section_c_metrics(filters) ==
    LET region == Get(filters, "region", "Combined")
        obs_type == Get(filters, "observation_type", "All Observations")
        bal_call == Invoke("balochistan_queries", "get_question_metrics", <<obs_type>>)
    IN  CASE region = "Balochistan" ->
               Routed(balochistan_get_question_metrics(obs_type), <<bal_call>>)
          [] region = "Moawin" ->
               Routed(moawin_get_question_metrics(obs_type),
                      << Invoke("moawin_queries", "get_question_metrics", <<obs_type>>) >>)
          [] region = "Islamabad" ->
               Routed(islamabad_get_question_metrics(obs_type),
                      << Invoke("islamabad_queries", "get_question_metrics", <<obs_type>>) >>)
          [] region = "Combined" ->
               Routed(balochistan_get_question_metrics(obs_type), <<bal_call>>)
          [] OTHER ->
               Routed([ avg_open_questions |-> None, avg_closed_questions |-> None,
                        open_question_ratio |-> None,
                        note |-> "Question data not available for this region" ], << >>)

queries_get_fico_section_d_metrics(filters) ==
    LET region == Get(filters, "region", "Combined")
        obs_type == Get(filters, "observation_type", "All Observations")
        bal_call == Invoke("balochistan_queries", "get_talk_time_metrics", <<obs_type>>)
    IN  CASE region = "Balochistan" ->
               Routed(balochistan_get_talk_time_metrics(obs_type), <<bal_call>>)
          [] region = "Moawin" ->
               Routed(moawin_get_talk_time_metrics(obs_type),
                      << Invoke("moawin_queries", "get_talk_time_metrics", <<obs_type>>) >>)
          [] region = "Islamabad" ->
               Routed(islamabad_get_talk_time_metrics(obs_type),
                      << Invoke("islamabad_queries", "get_talk_time_metrics", <<obs_type>>) >>)
          [] region = "Combined" ->
               Routed(balochistan_get_talk_time_metrics(obs_type), <<bal_call>>)
          [] OTHER ->
               Routed([ student_talk_time |-> None, teacher_talk_time |-> None,
                        target_student_time |-> 400,
                        note |-> "Talk time data not available for this region" ], << >>)

queries_get_fico_scores(filters) ==
    LET region == Get(filters, "region", "Combined")
        bal_call == Invoke("balochistan_queries", "get_fico_scores", << >>)
    IN  CASE region = "Balochistan" -> Routed(balochistan_get_fico_scores, <<bal_call>>)
          [] region = "Islamabad" ->
               Routed(islamabad_get_fico_scores,
                      << Invoke("islamabad_queries", "get_fico_scores", << >>) >>)
          [] region = "Combined" -> Routed(balochistan_get_fico_scores, <<bal_call>>)
          [] OTHER ->
               Routed([section_b |-> << >>, section_c |-> << >>, section_d |-> << >>], << >>)

queries_get_observation_counts(filters) ==
    LET region == Get(filters, "region", "Combined")
        obs_type == Get(filters, "observation_type", "All Observations")
        bal == balochistan_get_observation_counts(obs_type)
        isl == islamabad_get_observation_counts(obs_type)
        bal_call == Invoke("balochistan_queries", "get_observation_counts", <<obs_type>>)
        isl_call == Invoke("islamabad_queries", "get_observation_counts", <<obs_type>>)
    IN  CASE region = "Balochistan" -> Routed(bal, <<bal_call>>)
          [] region = "Moawin" ->
               Routed(moawin_get_observation_counts(obs_type),
                      << Invoke("moawin_queries", "get_observation_counts", <<obs_type>>) >>)
          [] region = "Islamabad" -> Routed(isl, <<isl_call>>)
          [] region = "Combined" ->
               Routed([ ai_count |-> bal.ai_count + Get(isl, "ai_count", 0),
                        human_count |-> bal.human_count + Get(isl, "human_count", 0),
                        total |-> bal.total + Get(isl, "total", 0) ],
                      <<bal_call, isl_call>>)
          [] OTHER -> Routed([ai_count |-> 0, human_count |-> 0, total |-> 0], << >>)

queries_get_observation_trend(filters, weeks) ==
    LET region == Get(filters, "region", "Combined")
        bal_call == Invoke("balochistan_queries", "get_observation_trend", <<weeks>>)
    IN  CASE region = "Balochistan" ->
               Routed(balochistan_get_observation_trend(weeks), <<bal_call>>)
          [] region = "Islamabad" ->
               Routed(islamabad_get_observation_trend(weeks),
                      << Invoke("islamabad_queries", "get_observation_trend", <<weeks>>) >>)
          [] region = "Combined" ->
               Routed(balochistan_get_observation_trend(weeks), <<bal_call>>)
          [] OTHER -> Routed(<< >>, << >>)

\* get_school_count / get_teacher_count / get_student_count read the
\* adapters' summaries with no argument: the adapters' defaults apply.
BalSummaryDefault == balochistan_get_summary_metrics("All Observations")
IslSummaryDefault == islamabad_get_summary_metrics("All Time")
BalSummaryCall == Invoke("balochistan_queries", "get_summary_metrics", <<"<default>">>)
IslSummaryCall == Invoke("islamabad_queries", "get_summary_metrics", <<"<default>">>)

queries_get_school_count(filters) ==
    LET region == Get(filters, "region", "Combined")
        mow_call == Invoke("moawin_queries", "get_school_count", << >>)
    IN  CASE region = "Moawin" -> Routed(moawin_get_school_count, <<mow_call>>)
          [] region = "Balochistan" ->
               Routed(Get(BalSummaryDefault, "schools", 0), <<BalSummaryCall>>)
          [] region = "Islamabad" ->
               Routed(Get(IslSummaryDefault, "schools", 0), <<IslSummaryCall>>)
          [] region = "Combined" ->
               Routed(moawin_get_school_count + Get(BalSummaryDefault, "schools", 0)
                        + Get(IslSummaryDefault, "schools", 0),
                      <<mow_call, BalSummaryCall, IslSummaryCall>>)
          [] OTHER -> Routed(0, << >>)

queries_get_teacher_count(filters) ==
    LET region == Get(filters, "region", "Combined")
        mow_call == Invoke("moawin_queries", "get_teacher_count", << >>)
        isl_call == Invoke("islamabad_queries", "get_teacher_count", << >>)
    IN  CASE region = "Moawin" -> Routed(moawin_get_teacher_count, <<mow_call>>)
          [] region = "Balochistan" ->
               Routed(Get(BalSummaryDefault, "teachers", 0), <<BalSummaryCall>>)
          [] region = "Islamabad" -> Routed(islamabad_get_teacher_count, <<isl_call>>)
          [] region = "Combined" ->
               Routed(moawin_get_teacher_count + Get(BalSummaryDefault, "teachers", 0)
                        + islamabad_get_teacher_count,
                      <<mow_call, BalSummaryCall, isl_call>>)
          [] OTHER -> Routed(0, << >>)

queries_get_student_count(filters) ==
    LET region == Get(filters, "region", "Combined")
        mow_call == Invoke("moawin_queries", "get_student_count", << >>)
    IN  CASE region = "Moawin" -> Routed(moawin_get_student_count, <<mow_call>>)
          [] region = "Balochistan" ->
               Routed(Get(BalSummaryDefault, "students", 0), <<BalSummaryCall>>)
          [] region = "Islamabad" ->
               Routed(Get(IslSummaryDefault, "students", 0), <<IslSummaryCall>>)
          [] region = "Combined" ->
               Routed(moawin_get_student_count + Get(BalSummaryDefault, "students", 0)
                        + Get(IslSummaryDefault, "students", 0),
                      <<mow_call, BalSummaryCall, IslSummaryCall>>)
          [] OTHER -> Routed(0, << >>)

queries_get_recent_sessions(filters, limit) ==
    LET region == Get(filters, "region", "Combined")
        bal_call == Invoke("balochistan_queries", "get_recent_observations", <<limit>>)
    IN  CASE region = "Balochistan" ->
               Routed(balochistan_get_recent_observations(limit), <<bal_call>>)
          [] region = "Combined" ->
               Routed(balochistan_get_recent_observations(limit), <<bal_call>>)
          [] OTHER -> Routed(<< >>, << >>)

queries_get_student_scores_by_subject(filters) ==
    LET region == Get(filters, "region", "Combined")
        mow_call == Invoke("moawin_queries", "get_student_scores_by_subject", << >>)
    IN  CASE region = "Moawin" -> Routed(moawin_get_student_scores_by_subject, <<mow_call>>)
          [] region = "Combined" -> Routed(moawin_get_student_scores_by_subject, <<mow_call>>)
          [] OTHER -> Routed(<< >>, << >>)

queries_get_attendance_trend(filters, days) ==
    LET region == Get(filters, "region", "Combined")
        mow_call == Invoke("moawin_queries", "get_attendance_trend", <<days>>)
    IN  CASE region = "Moawin" -> Routed(moawin_get_attendance_trend(days), <<mow_call>>)
          [] region = "Combined" -> Routed(moawin_get_attendance_trend(days), <<mow_call>>)
          [] OTHER -> Routed(<< >>, << >>)

\* ------------------------------------------------------------------------
\* State machine: the environment
\* ------------------------------------------------------------------------

MaxDegraded == 1

Degraded(u) == {s \in Stores : u[s] # "ok"}

\* How much is wrong at once: stores that are not up and populated, driver
\* libraries that are not installed.
FaultCount(u) ==
    Cardinality(Degraded(u)) + (IF PSYCOPG2_AVAILABLE THEN 0 ELSE 1)
                             + (IF BIGQUERY_AVAILABLE THEN 0 ELSE 1)

Sessions == {"s1", "s2"}

MetricOps == { "get_observation_metrics", "get_lp_engagement_metrics",
               "get_training_metrics", "get_retention_metrics",
               "get_fico_metrics", "get_student_learning_metrics" }

NoCall == [kind |-> "none"]
NoEntry == [cached |-> FALSE]

\* The process has imported its modules and served no request: the driver
\* libraries are installed or not, no BigQuery client has been made, nothing
\* is memoized, no session holds a refresh time.
Init ==
    /\ PSYCOPG2_AVAILABLE \in BOOLEAN
    /\ BIGQUERY_AVAILABLE \in BOOLEAN
    /\ upstream \in [Stores -> UpstreamStates]
    /\ FaultCount(upstream) <= MaxDegraded
    /\ bigquery_client = FALSE
    /\ now = 0
    /\ cache = [op \in MetricOps |-> NoEntry]
    /\ session_state = [s \in Sessions |-> None]
    /\ selection = << >>
    /\ ret = NoCall

\* An upstream store changes state.  What the latest call returned no
\* longer describes the stores as they are: an adapter's result is kept,
\* marked stale, for a repeated call to be compared with; any other is
\* forgotten.
UpstreamChanges ==
    \E s \in Stores, st \in UpstreamStates :
        /\ st # upstream[s]
        /\ upstream' = [upstream EXCEPT ![s] = st]
        /\ FaultCount(upstream') <= MaxDegraded
        /\ ret' = IF ret.kind = "adapter" THEN [ret EXCEPT !.stale = TRUE] ELSE NoCall
        /\ UNCHANGED << PSYCOPG2_AVAILABLE, BIGQUERY_AVAILABLE, bigquery_client,
                        now, cache, session_state, selection >>

\* The store behind each adapter module, and whether the module can use it:
\* its driver library is installed, the store accepts the connection and
\* answers the statement.
StoreOf(module) ==
    CASE module = "balochistan_queries" -> "balochistan"
      [] module \in {"islamabad_queries", "rawalpindi_queries"} -> "bigquery"
      [] module = "moawin_queries" -> "moawin"
      [] module = "rumi_queries" -> "rumi"

StoreUnusable(module) ==
    \/ upstream[StoreOf(module)] \in Unusable
    \/ IF StoreOf(module) = "bigquery" THEN ~BIGQUERY_AVAILABLE ELSE ~PSYCOPG2_AVAILABLE

\* Whether the query functions of the module's store print at least one line
\* when the store cannot be used.  get_balochistan_connection,
\* get_bigquery_client and every except branch print; query_moawin_direct and
\* get_rumi_connection return without a word when psycopg2 is not installed.
FailureLogged(module) ==
    IF StoreOf(module) \in {"balochistan", "bigquery"}
    THEN StoreUnusable(module)
    ELSE PSYCOPG2_AVAILABLE /\ upstream[StoreOf(module)] \in Unusable

\* A call of an operation that is not memoized returns `value`.  `bq` tells
\* whether the operation asks get_bigquery_client for the client, which
\* keeps the client it makes in _bigquery_client.  `unusable` records, for
\* an adapter, that its store could not be used when it was called, and
\* `logged` that its query functions then printed.
Returns(kind, module, op, args, value, bq) ==
    /\ ret' = [ kind |-> kind, module |-> module, op |-> op, args |-> args,
                value |-> value, at |-> now, stale |-> FALSE,
                unusable |-> kind = "adapter" /\ StoreUnusable(module),
                logged |-> kind = "adapter" /\ FailureLogged(module) ]
    /\ bigquery_client' = IF bq THEN get_bigquery_client ELSE bigquery_client
    /\ UNCHANGED << PSYCOPG2_AVAILABLE, BIGQUERY_AVAILABLE, upstream,
                    now, cache, session_state, selection >>

\* Arguments the callers pass.
Weeks == {1, 8}
Limits == {1, 10}
Days == {1, 30}

\* ------------------------------------------------------------------------
\* State machine: calls of the Source Adapters' operations
\* ------------------------------------------------------------------------

BalochistanCall ==
    \/ \E t \in ObsTypes :
         Returns("adapter", "balochistan_queries", "get_talk_time_metrics", <<t>>,
                 balochistan_get_talk_time_metrics(t), FALSE)
    \/ \E t \in ObsTypes :
         Returns("adapter", "balochistan_queries", "get_question_metrics", <<t>>,
                 balochistan_get_question_metrics(t), FALSE)
    \/ \E t \in ObsTypes :
         Returns("adapter", "balochistan_queries", "get_observation_counts", <<t>>,
                 balochistan_get_observation_counts(t), FALSE)
    \/ Returns("adapter", "balochistan_queries", "get_fico_scores", << >>,
               balochistan_get_fico_scores, FALSE)
    \/ \E t \in ObsTypes :
         Returns("adapter", "balochistan_queries", "get_summary_metrics", <<t>>,
                 balochistan_get_summary_metrics(t), FALSE)
    \/ \E w \in Weeks :
         Returns("adapter", "balochistan_queries", "get_observation_trend", <<w>>,
                 balochistan_get_observation_trend(w), FALSE)
    \/ \E n \in Limits :
         Returns("adapter", "balochistan_queries", "get_recent_observations", <<n>>,
                 balochistan_get_recent_observations(n), FALSE)

IslamabadCall ==
    \/ Returns("adapter", "islamabad_queries", "get_teacher_count", << >>,
               islamabad_get_teacher_count, TRUE)
    \/ Returns("adapter", "islamabad_queries", "get_observation_count", << >>,
               islamabad_get_observation_count, TRUE)
    \/ \E p \in TimePeriods :
         Returns("adapter", "islamabad_queries", "get_summary_metrics", <<p>>,
                 islamabad_get_summary_metrics(p), TRUE)
    \/ Returns("adapter", "islamabad_queries", "get_fico_scores", << >>,
               islamabad_get_fico_scores, TRUE)
    \/ \E w \in Weeks :
         Returns("adapter", "islamabad_queries", "get_observation_trend", <<w>>,
                 islamabad_get_observation_trend(w), TRUE)
    \/ \E t \in ObsTypes :
         Returns("adapter", "islamabad_queries", "get_observation_counts", <<t>>,
                 islamabad_get_observation_counts(t), t # "AI Only (Rumi)")
    \/ \E t \in ObsTypes :
         Returns("adapter", "islamabad_queries", "get_talk_time_metrics", <<t>>,
                 islamabad_get_talk_time_metrics(t), FALSE)
    \/ \E t \in ObsTypes :
         Returns("adapter", "islamabad_queries", "get_question_metrics", <<t>>,
                 islamabad_get_question_metrics(t), FALSE)
    \/ Returns("adapter", "islamabad_queries", "get_training_completion", << >>,
               islamabad_get_training_completion, TRUE)
    \/ Returns("adapter", "islamabad_queries", "get_teacher_by_region", << >>,
               islamabad_get_teacher_by_region, TRUE)

RawalpindiCall ==
    \/ \E p \in TimePeriods :
         Returns("adapter", "rawalpindi_queries", "get_summary_metrics", <<p>>,
                 rawalpindi_get_summary_metrics(p), TRUE)
    \/ Returns("adapter", "rawalpindi_queries", "get_school_count", << >>,
               rawalpindi_get_school_count, TRUE)
    \/ Returns("adapter", "rawalpindi_queries", "get_teacher_count", << >>,
               rawalpindi_get_teacher_count, TRUE)
    \/ Returns("adapter", "rawalpindi_queries", "get_student_count", << >>,
               rawalpindi_get_student_count, TRUE)
    \/ Returns("adapter", "rawalpindi_queries", "get_event_count", << >>,
               rawalpindi_get_event_count, TRUE)
    \/ \E t \in ObsTypes :
         Returns("adapter", "rawalpindi_queries", "get_observation_counts", <<t>>,
                 rawalpindi_get_observation_counts(t), FALSE)
    \/ \E w \in Weeks :
         Returns("adapter", "rawalpindi_queries", "get_observation_trend", <<w>>,
                 rawalpindi_get_observation_trend(w), FALSE)
    \/ \E t \in ObsTypes :
         Returns("adapter", "rawalpindi_queries", "get_talk_time_metrics", <<t>>,
                 rawalpindi_get_talk_time_metrics(t), FALSE)
    \/ \E t \in ObsTypes :
         Returns("adapter", "rawalpindi_queries", "get_question_metrics", <<t>>,
                 rawalpindi_get_question_metrics(t), FALSE)
    \/ Returns("adapter", "rawalpindi_queries", "get_fico_scores", << >>,
               rawalpindi_get_fico_scores, FALSE)

MoawinCall ==
    \/ Returns("adapter", "moawin_queries", "get_school_count", << >>,
               moawin_get_school_count, FALSE)
    \/ Returns("adapter", "moawin_queries", "get_teacher_count", << >>,
               moawin_get_teacher_count, FALSE)
    \/ Returns("adapter", "moawin_queries", "get_student_count", << >>,
               moawin_get_student_count, FALSE)
    \/ \E p \in TimePeriods :
         Returns("adapter", "moawin_queries", "get_summary_metrics", <<p>>,
                 moawin_get_summary_metrics(p), FALSE)
    \/ \E d \in Days :
         Returns("adapter", "moawin_queries", "get_attendance_trend", <<d>>,
                 moawin_get_attendance_trend(d), FALSE)
    \/ Returns("adapter", "moawin_queries", "get_student_scores_by_subject", << >>,
               moawin_get_student_scores_by_subject, FALSE)
    \/ Returns("adapter", "moawin_queries", "get_schools_by_cluster", << >>,
               moawin_get_schools_by_cluster, FALSE)
    \/ Returns("adapter", "moawin_queries", "get_task_completion_rate", << >>,
               moawin_get_task_completion_rate, FALSE)
    \/ Returns("adapter", "moawin_queries", "get_training_progress", << >>,
               moawin_get_training_progress, FALSE)
    \/ \E t \in ObsTypes :
         Returns("adapter", "moawin_queries", "get_observation_counts", <<t>>,
                 moawin_get_observation_counts(t), FALSE)
    \/ \E t \in ObsTypes :
         Returns("adapter", "moawin_queries", "get_talk_time_metrics", <<t>>,
                 moawin_get_talk_time_metrics(t), FALSE)
    \/ \E t \in ObsTypes :
         Returns("adapter", "moawin_queries", "get_question_metrics", <<t>>,
                 moawin_get_question_metrics(t), FALSE)

RumiCall ==
    \/ \E p \in TimePeriods :
         Returns("adapter", "rumi_queries", "get_summary_metrics", <<p>>,
                 rumi_get_summary_metrics(p), FALSE)
    \/ \E t \in ObsTypes :
         Returns("adapter", "rumi_queries", "get_observation_counts", <<t>>,
                 rumi_get_observation_counts(t), FALSE)
    \/ \E n \in Limits :
         Returns("adapter", "rumi_queries", "get_recent_sessions", <<n>>,
                 rumi_get_recent_sessions(n), FALSE)
    \/ Returns("adapter", "rumi_queries", "get_conversation_metrics", << >>,
               rumi_get_conversation_metrics, FALSE)
    \/ Returns("adapter", "rumi_queries", "get_lesson_plan_metrics", << >>,
               rumi_get_lesson_plan_metrics, FALSE)
    \/ \E w \in Weeks :
         Returns("adapter", "rumi_queries", "get_observation_trend", <<w>>,
                 rumi_get_observation_trend(w), FALSE)
    \/ \E t \in ObsTypes :
         Returns("adapter", "rumi_queries", "get_talk_time_metrics", <<t>>,
                 rumi_get_talk_time_metrics(t), FALSE)
    \/ \E t \in ObsTypes :
         Returns("adapter", "rumi_queries", "get_question_metrics", <<t>>,
                 rumi_get_question_metrics(t), FALSE)
    \/ Returns("adapter", "rumi_queries", "get_fico_scores", << >>,
               rumi_get_fico_scores, FALSE)

NextAdapters ==
    \/ UpstreamChanges
    \/ BalochistanCall
    \/ IslamabadCall
    \/ RawalpindiCall
    \/ MoawinCall
    \/ RumiCall

SpecAdapters == Init /\ [][NextAdapters]_vars

\* ------------------------------------------------------------------------
\* State machine: the presentation layer's filters and the router's calls
\* ------------------------------------------------------------------------

\* The sidebar's regions, the region tabs' keys, and two selectors no widget
\* offers that a caller of the router can still pass.
RegionSelectors ==
    { "Combined", "Balochistan", "Islamabad", "Moawin", "Rawalpindi",
      "ICT", "Rumi", "Rawalpindi (Coming Soon)", "Sindh" }

\* render_sidebar's dict, with the widgets' defaults for what was not chosen.
SidebarFilters(f) ==
    [ region |-> Get(f, "region", "Combined"),
      time_period |-> Get(f, "time_period", "Last 30 Days"),
      observation_type |-> Get(f, "observation_type", "All Observations") ]

\* A widget changes the selection; the latest call, made with the selection
\* as it was, is forgotten.
SelectRegion ==
    \E r \in RegionSelectors :
        /\ selection' = [SidebarFilters(selection) EXCEPT !.region = r]
        /\ selection' # selection
        /\ ret' = NoCall
        /\ UNCHANGED << PSYCOPG2_AVAILABLE, BIGQUERY_AVAILABLE, upstream, bigquery_client,
                        now, cache, session_state >>

SelectTimePeriod ==
    \E p \in TimePeriods :
        /\ selection' = [SidebarFilters(selection) EXCEPT !.time_period = p]
        /\ selection' # selection
        /\ ret' = NoCall
        /\ UNCHANGED << PSYCOPG2_AVAILABLE, BIGQUERY_AVAILABLE, upstream, bigquery_client,
                        now, cache, session_state >>

SelectObservationType ==
    \E t \in ObsTypes :
        /\ selection' = [SidebarFilters(selection) EXCEPT !.observation_type = t]
        /\ selection' # selection
        /\ ret' = NoCall
        /\ UNCHANGED << PSYCOPG2_AVAILABLE, BIGQUERY_AVAILABLE, upstream, bigquery_client,
                        now, cache, session_state >>

\* Whether one of the adapter calls made asks for the BigQuery client.
UsesBigQuery(calls) ==
    \E i \in 1..Len(calls) :
        /\ calls[i].module = "islamabad_queries"
        /\ calls[i].op \notin {"get_talk_time_metrics", "get_question_metrics"}
        /\ ~(calls[i].op = "get_observation_counts" /\ calls[i].args = <<"AI Only (Rumi)">>)

RouterReturns(op, args, routed) ==
    Returns("router", "queries", op, args, routed, UsesBigQuery(routed.calls))

RouterCall ==
    \/ RouterReturns("get_summary_metrics", <<selection>>, queries_get_summary_metrics(selection))
    \/ RouterReturns("get_fico_section_c_metrics", <<selection>>,
                     queries_get_fico_section_c_metrics(selection))
    \/ RouterReturns("get_fico_section_d_metrics", <<selection>>,
                     queries_get_fico_section_d_metrics(selection))
    \/ RouterReturns("get_fico_scores", <<selection>>, queries_get_fico_scores(selection))
    \/ RouterReturns("get_observation_counts", <<selection>>,
                     queries_get_observation_counts(selection))
    \/ \E w \in Weeks :
         RouterReturns("get_observation_trend", <<selection, w>>,
                       queries_get_observation_trend(selection, w))
    \/ RouterReturns("get_school_count", <<selection>>, queries_get_school_count(selection))
    \/ RouterReturns("get_teacher_count", <<selection>>, queries_get_teacher_count(selection))
    \/ RouterReturns("get_student_count", <<selection>>, queries_get_student_count(selection))
    \/ \E n \in Limits :
         RouterReturns("get_recent_sessions", <<selection, n>>,
                       queries_get_recent_sessions(selection, n))
    \/ RouterReturns("get_student_scores_by_subject", <<selection>>,
                     queries_get_student_scores_by_subject(selection))
    \/ \E d \in Days :
         RouterReturns("get_attendance_trend", <<selection, d>>,
                       queries_get_attendance_trend(selection, d))

NextRouter ==
    \/ SelectRegion
    \/ SelectTimePeriod
    \/ SelectObservationType
    \/ RouterCall

SpecRouter == Init /\ [][NextRouter]_vars

\* ------------------------------------------------------------------------
\* State machine: the memoized cross-region operations and the cache layer
\* ------------------------------------------------------------------------

MaxClock == 2
MaxCached == 1

\* The clock advances in steps of half the TTL.
TickSeconds == CACHE_TTL \div 2

Tick ==
    /\ now < MaxClock * TickSeconds
    /\ now' = now + TickSeconds
    /\ UNCHANGED << PSYCOPG2_AVAILABLE, BIGQUERY_AVAILABLE, upstream, bigquery_client,
                    cache, session_state, selection, ret >>

\* datetime.strftime("%d %b %Y, %I:%M %p") of the moment t seconds after
\* the midnight the clock starts at: the day, the hour on the 12-hour
\* clock, the minute and the meridiem; seconds are not shown.
strftime(t) ==
    LET minutes == t \div 60
        hour24 == (minutes \div 60) % 24
    IN  [ day |-> minutes \div 1440,
          hour |-> IF hour24 % 12 = 0 THEN 12 ELSE hour24 % 12,
          minute |-> minutes % 60,
          meridiem |-> IF hour24 < 12 THEN "AM" ELSE "PM" ]

\* A memoization that trusts an entry only while a store is down.
FreshWhileDegraded(entry) ==
    entry.cached /\ now - entry.at < CACHE_TTL /\ Degraded(upstream) # {}

\* @st.cache_data(ttl=CACHE_TTL): a stored entry serves a call while it is
\* younger than the TTL.
Fresh(entry) == entry.cached /\ now - entry.at < CACHE_TTL

Cached == {op \in MetricOps : cache[op].cached}

\* A call of the memoized operation `op`, whose body computes `computed`.
\* The body runs only when no fresh entry is stored; what it returns is
\* stored with the time.
CachedCall(op, computed, bq) ==
    LET hit == Fresh(cache[op])
        value == IF hit THEN cache[op].value ELSE computed
    IN  /\ cache[op].cached \/ Cardinality(Cached) < MaxCached
        /\ cache' = IF hit THEN cache
                    ELSE [cache EXCEPT ![op] = [cached |-> TRUE, value |-> computed, at |-> now]]
        /\ ret' = [ kind |-> "metric", module |-> "common_metrics", op |-> op,
                    args |-> << >>, value |-> value, at |-> now,
                    executed |-> ~hit,
                    found |-> IF cache[op].cached THEN cache[op].at ELSE None ]
        /\ bigquery_client' = IF ~hit /\ bq THEN get_bigquery_client ELSE bigquery_client
        /\ UNCHANGED << PSYCOPG2_AVAILABLE, BIGQUERY_AVAILABLE, upstream,
                        now, session_state, selection >>

GetObservationMetrics ==
    CachedCall("get_observation_metrics", get_observation_metrics, TRUE)

GetLpEngagementMetrics ==
    CachedCall("get_lp_engagement_metrics", get_lp_engagement_metrics, TRUE)

GetTrainingMetrics ==
    CachedCall("get_training_metrics", get_training_metrics, TRUE)

GetRetentionMetrics ==
    CachedCall("get_retention_metrics", get_retention_metrics, TRUE)

GetFicoMetrics ==
    CachedCall("get_fico_metrics", get_fico_metrics, TRUE)

GetStudentLearningMetrics ==
    CachedCall("get_student_learning_metrics", get_student_learning_metrics, FALSE)

\* A clear that drops nothing.
KeepEntries == cache

\* The body of each memoized operation.
MetricBody(op) ==
    CASE op = "get_observation_metrics" -> get_observation_metrics
      [] op = "get_lp_engagement_metrics" -> get_lp_engagement_metrics
      [] op = "get_training_metrics" -> get_training_metrics
      [] op = "get_retention_metrics" -> get_retention_metrics
      [] op = "get_fico_metrics" -> get_fico_metrics
      [] op = "get_student_learning_metrics" -> get_student_learning_metrics

\* st.cache_data.clear(): every memoized entry of every operation is dropped.
st_cache_data_clear == [op \in MetricOps |-> NoEntry]

\* A call of a cache-layer operation in session s returns `value`; `found`
\* is what it found stored (entries, or the session's refresh time).
LayerReturns(op, s, value, found) ==
    ret' = [ kind |-> "cache_layer", module |-> "cache_layer", op |-> op,
             args |-> <<s>>, value |-> value, at |-> now, found |-> found ]

\* clear_all_caches without its second statement: the entries are dropped,
\* the session's refresh time is left as it was.
ClearWithoutStamp(s) ==
    /\ cache' = st_cache_data_clear
    /\ session_state' = session_state
    /\ LayerReturns("clear_all_caches", s, NoneStr, Cardinality(Cached))
    /\ UNCHANGED << PSYCOPG2_AVAILABLE, BIGQUERY_AVAILABLE, upstream, bigquery_client,
                    now, selection >>

clear_all_caches(s) ==
    /\ cache' = st_cache_data_clear
    /\ session_state' = [session_state EXCEPT ![s] = now]
    /\ LayerReturns("clear_all_caches", s, NoneStr, Cardinality(Cached))
    /\ UNCHANGED << PSYCOPG2_AVAILABLE, BIGQUERY_AVAILABLE, upstream, bigquery_client,
                    now, selection >>

\* get_last_refresh_time without its test: every read stores the time.
ReadRestamps(s) ==
    /\ session_state' = [session_state EXCEPT ![s] = now]
    /\ LayerReturns("get_last_refresh_time", s, strftime(session_state'[s]), session_state[s])
    /\ UNCHANGED << PSYCOPG2_AVAILABLE, BIGQUERY_AVAILABLE, upstream, bigquery_client,
                    now, cache, selection >>

get_last_refresh_time(s) ==
    /\ session_state' = IF session_state[s] = None
                        THEN [session_state EXCEPT ![s] = now]
                        ELSE session_state
    /\ LayerReturns("get_last_refresh_time", s, strftime(session_state'[s]), session_state[s])
    /\ UNCHANGED << PSYCOPG2_AVAILABLE, BIGQUERY_AVAILABLE, upstream, bigquery_client,
                    now, cache, selection >>

ClearAllCaches == \E s \in Sessions : clear_all_caches(s)

GetLastRefreshTime == \E s \in Sessions : get_last_refresh_time(s)

Next ==
    \/ Tick
    \/ UpstreamChanges
    \/ GetObservationMetrics
    \/ GetLpEngagementMetrics
    \/ GetTrainingMetrics
    \/ GetRetentionMetrics
    \/ GetFicoMetrics
    \/ GetStudentLearningMetrics
    \/ ClearAllCaches
    \/ GetLastRefreshTime

Spec == Init /\ [][Next]_vars

\* ------------------------------------------------------------------------
\* scripts/refresh_cache.py: the daily refresh job
\* ------------------------------------------------------------------------

\* The connections one call of the store's query function has opened and
\* not closed when it returns.  query_balochistan and query_rumi close the
\* connection after the statement and in the except branch; BigQuery has a
\* client and no connection; query_moawin_direct closes only after the
\* statement, so a statement that raises leaves its connection open.
LeftOpenByQuery(store) ==
    IF store = "moawin" /\ PSYCOPG2_AVAILABLE /\ upstream["moawin"] = "query_error"
    THEN 1 ELSE 0

\* The connection status main() logs before refreshing.
check_all_connections ==
    [ balochistan |-> get_balochistan_connection,
      islamabad |-> get_bigquery_client,
      rumi |-> get_rumi_connection,
      moawin |-> Len(query_moawin_direct(<<"select_1">>)) > 0 ]

refresh_bigquery ==
    [ program_summary |-> query_islamabad(<<"refresh_cache", "program_summary", TRUE>>),
      lp_usage_30d |-> query_islamabad(<<"refresh_cache", "lp_usage_30d", TRUE>>),
      training_submissions |->
          query_islamabad(<<"refresh_cache", "training_submissions", TRUE>>),
      retention |-> query_islamabad(<<"refresh_cache", "retention", TRUE>>),
      fico_ict |-> query_islamabad(<<"refresh_cache", "fico_ict", FALSE>>) ]

refresh_balochistan ==
    [ observation_counts |->
          query_balochistan(<<"refresh_cache", "observation_counts", FALSE>>),
      fico_scores |-> query_balochistan(<<"refresh_cache", "fico_scores", FALSE>>) ]

refresh_moawin ==
    [ school_count |-> query_moawin_direct(<<"refresh_cache", "school_count", FALSE>>),
      teacher_count |-> query_moawin_direct(<<"refresh_cache", "teacher_count", FALSE>>),
      student_scores |-> query_moawin_direct(<<"refresh_cache", "student_scores", TRUE>>),
      task_completions |->
          query_moawin_direct(<<"refresh_cache", "task_completions", FALSE>>),
      attendance_count |->
          query_moawin_direct(<<"refresh_cache", "attendance_count", FALSE>>) ]

refresh_rumi ==
    [ user_count |-> query_rumi(<<"refresh_cache", "user_count", FALSE>>),
      session_counts |-> query_rumi(<<"refresh_cache", "session_counts", FALSE>>),
      lesson_plan_count |-> query_rumi(<<"refresh_cache", "lesson_plan_count", FALSE>>) ]

\* One run of the job.  A task counts as failed when its function raises;
\* the four functions only call the query functions, which catch every
\* exception and answer [], so none of them raises.  `value` is what is
\* written to latest.json and `exit` the code the process ends with: what
\* main returns, handed to sys.exit.  `open` counts the connections left
\* open by the statements of the run: two of Balochistan, five of BigQuery,
\* six of Moawin (the connection check's SELECT 1 among them) and three of
\* Rumi; the connection check closes the connections it opens itself.  `writable` tells whether the cache
\* files can be opened for writing; when they cannot, open() raises OSError,
\* nothing in main or around it catches it, and the interpreter ends the
\* process with its code for an uncaught exception, 1.
main ==
    \E writable \in BOOLEAN :
        LET status == check_all_connections
            db_tasks == [ bigquery |-> [raised |-> FALSE, data |-> refresh_bigquery],
                          balochistan |-> [raised |-> FALSE, data |-> refresh_balochistan],
                          moawin |-> [raised |-> FALSE, data |-> refresh_moawin],
                          rumi |-> [raised |-> FALSE, data |-> refresh_rumi] ]
            failures == Cardinality({name \in Stores : db_tasks[name].raised})
            databases == [ name \in Stores |->
                             IF db_tasks[name].raised THEN [status |-> "error"]
                             ELSE [status |-> "ok", data |-> db_tasks[name].data] ]
        IN  /\ ret' = [ kind |-> "refresh", status |-> status,
                        value |-> [timestamp |-> now, databases |-> databases],
                        written |-> writable,
                        open |-> 2 * LeftOpenByQuery("balochistan")
                                 + 5 * LeftOpenByQuery("bigquery")
                                 + 6 * LeftOpenByQuery("moawin")
                                 + 3 * LeftOpenByQuery("rumi"),
                        exit |-> IF ~writable THEN 1
                                 ELSE IF failures > 0 THEN 1 ELSE 0 ]
            /\ bigquery_client' = get_bigquery_client
            /\ UNCHANGED << PSYCOPG2_AVAILABLE, BIGQUERY_AVAILABLE, upstream,
                            now, cache, session_state, selection >>

NextRefresh ==
    \/ UpstreamChanges
    \/ Tick
    \/ main

SpecRefresh == Init /\ [][NextRefresh]_vars

\* ------------------------------------------------------------------------
\* What the operations do with the rows a statement returned
\* ------------------------------------------------------------------------

\* The body of an operation from the point where its statements have
\* answered, as a function of the rows.  The outcome is a value or an
\* exception leaving the operation: int(None) raises TypeError, row["count"]
\* on a row without the field raises KeyError, None.lower() raises
\* AttributeError.  None of the three operations has a try block.
Value(v) == [raised |-> FALSE, value |-> v]
Raise(e) == [error |-> e, raised |-> TRUE]

\* int(results[0].get("count", default)) if results else default
islamabad_get_teacher_count_on(results) ==
    IF results = << >> THEN Value(ISLAMABAD_KNOWN_VALUES.teachers)
    ELSE LET count == Get(results[1], "count", ISLAMABAD_KNOWN_VALUES.teachers)
         IN  IF count = None THEN Raise("TypeError") ELSE Value(count)

\* int(results[0]["count"]) if results else default
CountOrDefault(results, default) ==
    IF results = << >> THEN Value(default)
    ELSE IF "count" \notin DOMAIN results[1] THEN Raise("KeyError")
    ELSE IF results[1].count = None THEN Raise("TypeError")
    ELSE Value(results[1].count)

rumi_get_summary_metrics_on(user_results, coaching_results, chat_results, school_results) ==
    LET teachers == CountOrDefault(user_results, RUMI_KNOWN_VALUES.users)
        ai_sessions == CountOrDefault(coaching_results, RUMI_KNOWN_VALUES.coaching_sessions)
        chat_sessions == CountOrDefault(chat_results, RUMI_KNOWN_VALUES.chat_sessions)
        schools == CountOrDefault(school_results, 0)
    IN  IF teachers.raised THEN teachers
        ELSE IF ai_sessions.raised THEN ai_sessions
        ELSE IF chat_sessions.raised THEN chat_sessions
        ELSE IF schools.raised THEN schools
        ELSE Value([ schools |-> schools.value,
                     teachers |-> teachers.value,
                     ai_sessions |-> ai_sessions.value,
                     human_observations |-> 0,
                     avg_score |-> 0,
                     students |-> 0,
                     chat_sessions |-> chat_sessions.value,
                     lesson_plans |-> RUMI_KNOWN_VALUES.lesson_plans ])

\* The BigQuery part of get_lp_engagement_metrics: bq_data is filled row by
\* row with r.get("program", "").lower() as the key, then read per program.
get_lp_engagement_metrics_on(bq_results) ==
    IF \E i \in 1..Len(bq_results) : Get(bq_results[i], "program", "") = NoneStr
    THEN Raise("AttributeError")
    ELSE LET lp(bq_key) ==
                 LET e == ProgramEngagement(bq_results, bq_key, "total_events")
                 IN  [ total_events |-> e.total, unique_teachers |-> e.unique_teachers,
                       per_teacher |-> e.per_teacher, status |-> e.status ]
         IN  Value([ ICT |-> lp("ict"),
                     Balochistan |-> lp("balochistan"),
                     RWP |-> lp("rawalpindi") ])

\* Rows a statement can answer with: complete, lacking a field, or holding
\* null in it.
CountRows == { [count |-> 7], [n |-> 7], [count |-> None] }
CountResults == { << >> } \cup { <<r>> : r \in CountRows }
LpRows == { [program |-> "ICT", total_events |-> 12, unique_teachers |-> 4],
            [total_events |-> 12, unique_teachers |-> 4],
            [program |-> NoneStr, total_events |-> 12, unique_teachers |-> 4],
            [program |-> "ICT", total_events |-> None, unique_teachers |-> None],
            [program |-> "ICT"] }
LpResults == { << >> } \cup { <<r>> : r \in LpRows }
                       \cup { <<r, q>> : r \in LpRows, q \in LpRows }

RowsHandled(op, args, outcome) ==
    /\ ret' = [kind |-> "rows", op |-> op, args |-> args, out |-> outcome]
    /\ UNCHANGED << PSYCOPG2_AVAILABLE, BIGQUERY_AVAILABLE, upstream, bigquery_client,
                    now, cache, session_state, selection >>

NextRows ==
    \/ \E results \in CountResults :
         RowsHandled("islamabad_queries.get_teacher_count", <<results>>,
                     islamabad_get_teacher_count_on(results))
    \/ \E u \in CountResults, c \in CountResults, ch \in CountResults, sc \in CountResults :
         RowsHandled("rumi_queries.get_summary_metrics", <<u, c, ch, sc>>,
                     rumi_get_summary_metrics_on(u, c, ch, sc))
    \/ \E bq_results \in LpResults :
         RowsHandled("common_metrics.get_lp_engagement_metrics", <<bq_results>>,
                     get_lp_engagement_metrics_on(bq_results))

SpecRows == Init /\ [][NextRows]_vars

\* ------------------------------------------------------------------------
\* pages/1_fico_analysis.py: the FICO analysis page
\* ------------------------------------------------------------------------

\* The outcome of rendering is what was put on the page, or the exception
\* that left the render function: formatting None with ":.0f" or ":.1f" and
\* subtracting None from a number both raise TypeError.

\* Section C.  The three numbers are formatted in the hero and the metric
\* cards before the chart of the recent sessions is drawn.
render_section_c_detail(filters, region) ==
    LET metrics == queries_get_fico_section_c_metrics(filters).value
        open_ratio == IF region = "Balochistan" THEN 13
                      ELSE Get(metrics, "open_question_ratio", 35)
        avg_open == IF region = "Balochistan" THEN 12
                    ELSE Get(metrics, "avg_open_questions", 35)
        avg_closed == IF region = "Balochistan" THEN 81
                      ELSE Get(metrics, "avg_closed_questions", 65)
    IN  IF open_ratio = None \/ avg_open = None \/ avg_closed = None
        THEN Raise("TypeError")
        ELSE Value("rendered")

\* Section D.  The hero shows target - student_talk.
render_section_d_detail(filters, region) ==
    LET metrics == queries_get_fico_section_d_metrics(filters).value
        student_talk == IF region = "Balochistan" THEN 6
                        ELSE Get(metrics, "student_talk_time", 35)
    IN  IF student_talk = None THEN Raise("TypeError") ELSE Value("rendered")

\* One region tab with the focus area chosen in it.  The overview and the
\* sections A, B, E and F show literals of the page.
render_region_fico(region, filters, section) ==
    LET region_filters == [k \in DOMAIN filters \cup {"region"} |->
                             IF k = "region" THEN region ELSE filters[k]]
    IN  IF region \in {"Moawin", "Rumi"} THEN Value("placeholder")
        ELSE IF section = "C: Understanding"
        THEN render_section_c_detail(region_filters, region)
        ELSE IF section = "D: Participation"
        THEN render_section_d_detail(region_filters, region)
        ELSE Value("rendered")

TabKeys == {"ICT", "Balochistan", "Rawalpindi", "Moawin", "Rumi"}
FocusAreas == { "Overview", "A: Lesson Opening", "B: Explanation", "C: Understanding",
                "D: Participation", "E: Feedback", "F: Closing" }

NextPage ==
    \/ SelectRegion
    \/ SelectTimePeriod
    \/ SelectObservationType
    \/ \E region \in TabKeys, section \in FocusAreas :
         /\ ret' = [ kind |-> "page", region |-> region, section |-> section,
                     out |-> render_region_fico(region, SidebarFilters(selection), section) ]
         /\ UNCHANGED << PSYCOPG2_AVAILABLE, BIGQUERY_AVAILABLE, upstream,
                         bigquery_client, now, cache, session_state, selection >>

SpecPage == Init /\ [][NextPage]_vars

\* ------------------------------------------------------------------------
\* db_connections: one statement in flight
\* ------------------------------------------------------------------------

\* A call of a query function step by step.  It first obtains a connection
\* (a client for BigQuery): psycopg2.connect is given connect_timeout, so
\* this ends, with a connection or without.  It then executes the statement
\* and fetches the rows.  cursor.execute and query_job.result() are given no
\* timeout: they return when the store answers (rows, or an error that the
\* except branch turns into []), and `answers` tells whether it ever does.
QueryProceeds ==
    /\ ret.kind = "query"
    /\ \/ /\ ret.phase = "connecting"
          /\ LET connected ==
                     CASE ret.store = "balochistan" -> get_balochistan_connection
                       [] ret.store = "bigquery" -> get_bigquery_client
                       [] ret.store = "moawin" ->
                            PSYCOPG2_AVAILABLE /\ upstream["moawin"] \notin ConnectFailures
                       [] ret.store = "rumi" -> get_rumi_connection
             IN  ret' = IF connected THEN [ret EXCEPT !.phase = "executing"]
                        ELSE [ret EXCEPT !.phase = "returned"]
          /\ bigquery_client' = IF ret.store = "bigquery" THEN get_bigquery_client
                                ELSE bigquery_client
       \/ /\ ret.phase = "executing"
          /\ ret.answers
          /\ LET sql == <<"refresh_cache", "count", FALSE>>
             IN  ret' = [ret EXCEPT !.phase = "returned",
                                    !.rows = CASE ret.store = "balochistan" -> query_balochistan(sql)
                                               [] ret.store = "bigquery" -> query_islamabad(sql)
                                               [] ret.store = "moawin" -> query_moawin_direct(sql)
                                               [] ret.store = "rumi" -> query_rumi(sql)]
          /\ bigquery_client' = bigquery_client
    /\ UNCHANGED << PSYCOPG2_AVAILABLE, BIGQUERY_AVAILABLE, upstream,
                    now, cache, session_state, selection >>

NextQuery ==
    \/ \E store \in Stores, answers \in BOOLEAN :
         /\ ret.kind = "query" => ret.phase = "returned"
         /\ ret' = [ kind |-> "query", store |-> store, answers |-> answers,
                     phase |-> "connecting", rows |-> << >> ]
         /\ UNCHANGED << PSYCOPG2_AVAILABLE, BIGQUERY_AVAILABLE, upstream,
                         bigquery_client, now, cache, session_state, selection >>
    \/ QueryProceeds
    \/ Tick

SpecQuery == Init /\ [][NextQuery]_vars

\* ------------------------------------------------------------------------
\* common_metrics.get_all_metrics beside clear_all_caches of another session
\* ------------------------------------------------------------------------

\* The six memoized operations in the order get_all_metrics calls them.
AllOps == << "get_observation_metrics", "get_lp_engagement_metrics",
             "get_training_metrics", "get_retention_metrics",
             "get_fico_metrics", "get_student_learning_metrics" >>

\* get_all_metrics evaluates its dict entry by entry: each of the six calls
\* is served by the stored entry when it is fresh, and runs and stores the
\* body otherwise.  `hits` records, call by call, whether it was served.
GetAllMetricsStep ==
    /\ ret.kind = "all"
    /\ ret.pos < Len(AllOps)
    /\ LET op == AllOps[ret.pos + 1]
           hit == Fresh(cache[op])
       IN  /\ cache' = IF hit THEN cache
                       ELSE [cache EXCEPT ![op] = [cached |-> TRUE, value |-> MetricBody(op),
                                                   at |-> now]]
           /\ ret' = [ret EXCEPT !.pos = @ + 1, !.hits = Append(@, hit)]
           /\ bigquery_client' = IF ~hit /\ op # "get_student_learning_metrics"
                                 THEN get_bigquery_client ELSE bigquery_client
    /\ UNCHANGED << PSYCOPG2_AVAILABLE, BIGQUERY_AVAILABLE, upstream,
                    now, session_state, selection >>

\* A session calls get_all_metrics; every session runs in a thread of its
\* own over the one memoization table, so another session's
\* clear_all_caches can run between two of the six calls.  What the clear
\* returns goes to the session that asked for it.
NextAll ==
    \/ /\ ret.kind = "all" => ret.pos = Len(AllOps)
       /\ ret' = [kind |-> "all", pos |-> 0, hits |-> << >>]
       /\ UNCHANGED << PSYCOPG2_AVAILABLE, BIGQUERY_AVAILABLE, upstream,
                       bigquery_client, now, cache, session_state, selection >>
    \/ GetAllMetricsStep
    \/ \E s \in Sessions :
         /\ cache' = st_cache_data_clear
         /\ session_state' = [session_state EXCEPT ![s] = now]
         /\ UNCHANGED << PSYCOPG2_AVAILABLE, BIGQUERY_AVAILABLE, upstream,
                         bigquery_client, now, selection, ret >>

SpecAll == Init /\ [][NextAll]_vars

\* ------------------------------------------------------------------------
\* Properties of the Source Adapters
\* ------------------------------------------------------------------------

\* The step is a call of the adapter operation that ret already holds, with
\* the same arguments.
AdapterCallRepeated ==
    /\ ret.kind = "adapter"
    /\ ret'.kind = "adapter"
    /\ ~ret'.stale
    /\ ret'.module = ret.module
    /\ ret'.op = ret.op
    /\ ret'.args = ret.args

\* C1: whenever the store behind an adapter cannot be used (connection
\* refused, connect timeout, authentication failure, query error, driver
\* library not installed), each of the adapter's operations returns its
\* statically known fallback value: one value per operation and arguments,
\* the same in every such state of the store.  (No operation of the model
\* raises; every call returns.)
C1_FallbackWhenStoreUnusable ==
    [][ (AdapterCallRepeated /\ ret.unusable /\ ret'.unusable)
            => ret'.value = ret.value ]_vars

\* C5: every adapter operation is memoized on its identity and arguments: a
\* repeated call with identical arguments within the TTL returns the value
\* computed before, without querying the upstream again.
C5_AdapterCallsMemoized ==
    [][ (AdapterCallRepeated /\ ret'.at - ret.at < CACHE_TTL)
            => ret'.value = ret.value ]_vars

\* The adapter operations that issue no statement: what they return is the
\* same constant whatever their store does.
IssuesNoStatement(module, op, args) ==
    \/ op \in {"get_talk_time_metrics", "get_question_metrics"}
         /\ module # "balochistan_queries"
    \/ op = "get_fico_scores" /\ module # "islamabad_queries"
    \/ op \in {"get_observation_counts", "get_observation_trend"}
         /\ module \in {"rawalpindi_queries", "moawin_queries"}
    \/ module = "islamabad_queries" /\ op = "get_observation_counts"
         /\ args = <<"AI Only (Rumi)">>

\* C16: an adapter operation that returns while its store cannot be used
\* (connection failure, query error, missing credentials, driver library
\* not installed) has printed at least one line before returning.
C16_FallbackIsLogged ==
    (/\ ret.kind = "adapter"
     /\ ret.unusable
     /\ ~IssuesNoStatement(ret.module, ret.op, ret.args))
        => ret.logged

\* The adapter operations that return a metric the adapter's source cannot
\* measure.
NotMeasurable ==
    { <<"moawin_queries", "get_observation_counts">>,
      <<"moawin_queries", "get_talk_time_metrics">>,
      <<"moawin_queries", "get_question_metrics">>,
      <<"rumi_queries", "get_fico_scores">> }

\* C17: what an adapter returns for a metric its source cannot measure is
\* tagged status not_applicable and holds no count: ai_count, human_count
\* and total are null or absent, never 0.
C17_NotMeasurableIsNotApplicable ==
    (ret.kind = "adapter" /\ <<ret.module, ret.op>> \in NotMeasurable)
        => /\ "status" \in DOMAIN ret.value
           /\ ret.value.status = "not_applicable"
           /\ \A k \in {"ai_count", "human_count", "total"} \cap DOMAIN ret.value :
                  ret.value[k] = None

\* ------------------------------------------------------------------------
\* Properties of the router
\* ------------------------------------------------------------------------

\* The selectors that name one region, and the adapter of each.
SingleRegions == {"ICT", "Islamabad", "Balochistan", "Rawalpindi", "Moawin", "Rumi"}

AdapterOf(region) ==
    CASE region \in {"ICT", "Islamabad"} -> "islamabad_queries"
      [] region = "Balochistan" -> "balochistan_queries"
      [] region = "Rawalpindi" -> "rawalpindi_queries"
      [] region = "Moawin" -> "moawin_queries"
      [] region = "Rumi" -> "rumi_queries"

\* The adapter operations that take a sub-filter, and the sub-filter of the
\* caller's filter set that each takes.
SubFilterOf(op) ==
    CASE op = "get_summary_metrics" -> {"observation_type", "time_period"}
      [] op \in {"get_question_metrics", "get_talk_time_metrics",
                 "get_observation_counts"} -> {"observation_type"}
      [] OTHER -> {}

\* C9: a router call for a single named region invokes exactly one adapter
\* operation, of the adapter of that region, and the sub-filter it hands
\* over (observation_type, time_period) is the caller's.
C9_RoutesToTheRegionsAdapter ==
    (/\ ret.kind = "router"
     /\ "region" \in DOMAIN ret.args[1]
     /\ ret.args[1].region \in SingleRegions)
        => LET f == ret.args[1]
               calls == ret.value.calls
           IN  /\ Len(calls) = 1
               /\ calls[1].module = AdapterOf(f.region)
               /\ SubFilterOf(calls[1].op) # {}
                    => \E k \in SubFilterOf(calls[1].op) : calls[1].args = <<f[k]>>

\* C10: in Combined mode get_observation_counts returns, for each of
\* ai_count, human_count and total, the sum of that count over the five
\* adapters that provide get_observation_counts, each evaluated with the
\* caller's observation_type.
C10_CombinedSumsEveryAdapter ==
    (/\ ret.kind = "router"
     /\ ret.op = "get_observation_counts"
     /\ Get(ret.args[1], "region", "Combined") = "Combined")
        => LET t == Get(ret.args[1], "observation_type", "All Observations")
               parts == << balochistan_get_observation_counts(t),
                           islamabad_get_observation_counts(t),
                           rawalpindi_get_observation_counts(t),
                           moawin_get_observation_counts(t),
                           rumi_get_observation_counts(t) >>
           IN  \A k \in {"ai_count", "human_count", "total"} :
                   ret.value.value[k] = SumSeq([i \in 1..Len(parts) |-> parts[i][k]])

\* The adapter's store is usable and populated: what the adapter returns
\* was measured, not substituted.
ReportsActive(module) ==
    ~StoreUnusable(module) /\ upstream[StoreOf(module)] = "ok"

\* What the adapter operation of a recorded summary call returns.
SummaryOf(call) ==
    CASE call.module = "balochistan_queries" -> balochistan_get_summary_metrics(call.args[1])
      [] call.module = "moawin_queries" -> moawin_get_summary_metrics(call.args[1])
      [] call.module = "islamabad_queries" -> islamabad_get_summary_metrics(call.args[1])

\* C11: in Combined mode the avg_score of get_summary_metrics is the mean of
\* the avg_score of the consulted adapters that report an active value,
\* divided by the number of those adapters; an adapter without one is left
\* out of the sum and of the count.
C11_CombinedMeanOverActive ==
    (/\ ret.kind = "router"
     /\ ret.op = "get_summary_metrics"
     /\ Get(ret.args[1], "region", "Combined") = "Combined")
        => LET calls == ret.value.calls
               active == {i \in 1..Len(calls) : ReportsActive(calls[i].module)}
               scores == [i \in active |-> SummaryOf(calls[i]).avg_score]
           IN  active # {}
                 => ret.value.value.avg_score
                      = RoundHalfEven(SumOver(scores, active), Cardinality(active))

\* The numeric fields of the records the router returns, and the router
\* operations that return a bare number.
NumericFields ==
    { "schools", "teachers", "ai_sessions", "human_observations", "avg_score",
      "students", "ai_count", "human_count", "total" }

CountOps == {"get_school_count", "get_teacher_count", "get_student_count"}

\* C12: every router call returns, and when it is for a named region for
\* which no adapter could be consulted (data not yet available) what it
\* returns holds no number: no numeric field of a record, no bare count.
C12_UnavailableIsNotANumber ==
    (/\ ret.kind = "router"
     /\ "region" \in DOMAIN ret.args[1]
     /\ ret.args[1].region \in SingleRegions
     /\ Len(ret.value.calls) = 0)
        => LET v == ret.value.value
           IN  CASE ret.op \in {"get_summary_metrics", "get_observation_counts"} ->
                      \A k \in NumericFields \cap DOMAIN v : v[k] = None
                 [] ret.op \in CountOps -> v = None
                 [] OTHER -> TRUE

\* C13: no router operation returns for a filter set whose region selector
\* is missing or is neither a region's name nor "Combined": the call is
\* rejected.
C13_UnknownRegionRejected ==
    ~(/\ ret.kind = "router"
      /\ \/ "region" \notin DOMAIN ret.args[1]
         \/ ret.args[1].region \notin SingleRegions \cup {"Combined"})

\* ------------------------------------------------------------------------
\* Properties of the cross-region metric operations
\* ------------------------------------------------------------------------

StringFields == {"type", "description", "status"}
StructFields == {"section_b", "section_c", "section_d", "subjects"}

\* The value fields of a Metric Record: every field but status and type.
ValueFields(rec) == DOMAIN rec \ {"status", "type"}

NonNull(rec, k) ==
    IF k \in StructFields THEN TRUE
    ELSE IF k \in StringFields THEN rec[k] # NoneStr
    ELSE rec[k] # None

\* C2: in every record a cross-region operation returns for a region,
\* status is "active" exactly when some value field is non-null; a record
\* that is not active has every value field null or absent.
C2_StatusConsistentWithValues ==
    ret.kind = "metric"
        => \A region \in DOMAIN ret.value :
               LET rec == ret.value[region]
               IN  (rec.status = "active") <=> (\E k \in ValueFields(rec) : NonNull(rec, k))

MetricCallStep == ret'.kind = "metric" /\ ret' # ret

ClearStep ==
    ret'.kind = "cache_layer" /\ ret'.op = "clear_all_caches" /\ ret' # ret

ReadStep ==
    ret'.kind = "cache_layer" /\ ret'.op = "get_last_refresh_time" /\ ret' # ret

\* C4: an invocation of a memoized operation that executes stores its
\* result; every later invocation less than the TTL after it, with no
\* clear_all_caches in between, returns the stored value and executes
\* nothing, so the two cause one execution.  clear_all_caches leaves no
\* entry, and an invocation that finds none executes the upstream queries
\* again and stores what they give.
C4_OneExecutionWithinTTL ==
    [][ /\ MetricCallStep =>
              LET e == cache[ret'.op]
              IN  /\ (e.cached /\ ret'.at - e.at < CACHE_TTL)
                        => /\ ~ret'.executed
                           /\ ret'.value = e.value
                           /\ cache' = cache
                  /\ ~e.cached
                        => /\ ret'.executed
                           /\ cache'[ret'.op] =
                                [cached |-> TRUE, value |-> ret'.value, at |-> ret'.at]
        /\ ClearStep => \A op \in MetricOps : ~cache'[op].cached ]_vars

\* A second invocation, later than the one that executed and within the TTL
\* of it, has returned the stored value.
C4_Witness ==
    /\ ret.kind = "metric"
    /\ ~ret.executed
    /\ ret.found # None
    /\ ret.at > ret.found
    /\ ret.at - ret.found < CACHE_TTL

\* C6: a stored value is returned only while less than 28800 seconds have
\* passed since it was computed, whichever the operation; a call that finds
\* an entry that old or older runs the operation's body against the
\* upstream as it is now, and returns and stores that result.
C6_NothingServedPastTTL ==
    [][ MetricCallStep =>
            LET e == cache[ret'.op]
            IN  /\ ~ret'.executed
                      => /\ e.cached
                         /\ ret'.at - e.at < 28800
                         /\ ret'.value = e.value
                /\ (e.cached /\ ret'.at - e.at >= 28800)
                      => /\ ret'.executed
                         /\ ret'.value = MetricBody(ret'.op)
                         /\ cache'[ret'.op] =
                              [cached |-> TRUE, value |-> ret'.value, at |-> now] ]_vars

\* A call has found an entry as old as the TTL and has recomputed.
C6_Witness ==
    /\ ret.kind = "metric"
    /\ ret.executed
    /\ ret.found # None
    /\ ret.at - ret.found >= CACHE_TTL

\* C7: when clear_all_caches returns, no operation has a memoized entry and
\* the session's freshness timestamp is the time of the invalidation; a
\* get_last_refresh_time read that follows it in the session returns that
\* time.
C7_ClearEmptiesAndStamps ==
    [][ /\ ClearStep =>
              /\ \A op \in MetricOps : ~cache'[op].cached
              /\ ret'.at = now
              /\ session_state'[ret'.args[1]] = ret'.at
        /\ (/\ ReadStep
            /\ ret.kind = "cache_layer"
            /\ ret.op = "clear_all_caches"
            /\ ret.args = ret'.args)
              => ret'.value = strftime(ret.at) ]_vars

\* clear_all_caches has returned after dropping an entry, later than the
\* clock's start, and the session's timestamp is the time of the call.
C7_Witness ==
    /\ ret.kind = "cache_layer"
    /\ ret.op = "clear_all_caches"
    /\ ret.found > 0
    /\ ret.at > 0
    /\ session_state[ret.args[1]] = ret.at

\* C8: get_last_refresh_time can be called in every state; when the session
\* stores no timestamp it stores the current time and returns it, otherwise
\* it returns the stored one and leaves it, so that reads with no
\* clear_all_caches between them return the same timestamp.
C8_ReadIsLazyAndStable ==
    [][ /\ \A s \in Sessions : ENABLED get_last_refresh_time(s)
        /\ ReadStep =>
              LET s == ret'.args[1]
              IN  IF session_state[s] = None
                  THEN session_state'[s] = now /\ ret'.value = strftime(now)
                  ELSE /\ session_state'[s] = session_state[s]
                       /\ ret'.value = strftime(session_state[s])
        /\ (/\ ReadStep
            /\ ret.kind = "cache_layer"
            /\ ret.op = "get_last_refresh_time"
            /\ ret.args = ret'.args)
              => ret'.value = ret.value ]_vars

\* A read, later than the time the session stored, has returned the stored
\* time.
C8_Witness ==
    /\ ret.kind = "cache_layer"
    /\ ret.op = "get_last_refresh_time"
    /\ ret.found # None
    /\ ret.at > ret.found
    /\ ret.value = strftime(ret.found)

\* ------------------------------------------------------------------------
\* Properties of get_observation_metrics
\* ------------------------------------------------------------------------

\* The regions whose observation count an adapter reads from a store.
MeasuredRegions == {"ICT", "Balochistan", "Rumi"}

\* C15: when get_observation_metrics runs while the store behind a region
\* refuses or times out the connection, that region's record is not active
\* and its actual is null.
C15_UnreachableRegionIsNoData ==
    (ret.kind = "metric" /\ ret.op = "get_observation_metrics" /\ ret.executed)
        => \A region \in MeasuredRegions :
               upstream[StoreOf(AdapterOf(region))] \in ConnectFailures
                 => /\ ret.value[region].status # "active"
                    /\ ret.value[region].actual = None

\* C19: whatever the upstream stores' state, get_observation_metrics returns
\* benchmark_monthly 55 * 4 * 22 = 4840 for ICT and 27 * 4 * 22 = 2376 for
\* RWP, the product of each configured benchmark's three factors, and null
\* for Balochistan, Moawin and Rumi, which have none configured.
C19_BenchmarkIsTheProduct ==
    (ret.kind = "metric" /\ ret.op = "get_observation_metrics")
        => /\ ret.value["ICT"].benchmark_monthly = 55 * 4 * 22
           /\ ret.value["ICT"].benchmark_monthly = 4840
           /\ ret.value["RWP"].benchmark_monthly = 27 * 4 * 22
           /\ ret.value["RWP"].benchmark_monthly = 2376
           /\ \A region \in {"Balochistan", "Moawin", "Rumi"} :
                  ret.value[region].benchmark_monthly = None

\* get_observation_metrics has computed its records while a store could not
\* be used, with ICT's count a substituted one, and the benchmarks are there.
C19_Witness ==
    /\ ret.kind = "metric"
    /\ ret.op = "get_observation_metrics"
    /\ ret.executed
    /\ upstream["bigquery"] \in Unusable
    /\ ret.value["ICT"].actual = 2423
    /\ ret.value["RWP"].benchmark_monthly > 0

\* ------------------------------------------------------------------------
\* Properties of the derived ratios
\* ------------------------------------------------------------------------

\* The scores of a section that count in its average: the non-zero ones.
Scored(section) == {k \in DOMAIN section : section[k] # 0}

SourceDown(s) ==
    \/ upstream[s] \in Unusable
    \/ IF s = "bigquery" THEN ~BIGQUERY_AVAILABLE ELSE ~PSYCOPG2_AVAILABLE

\* C20: the refresh job exits with code 0 only when every source was read
\* from its store, and with code 1 whenever at least one source could not
\* be reached or queried.
C20_ExitCodeTellsWhetherRefreshed ==
    (ret.kind = "refresh" /\ ret.written) =>
        /\ ret.exit = 0 => \A s \in Stores : ~SourceDown(s)
        /\ (\E s \in Stores : SourceDown(s)) => ret.exit = 1

\* ------------------------------------------------------------------------
\* Properties of the handling of malformed rows
\* ------------------------------------------------------------------------

MalformedCount(results) ==
    /\ results # << >>
    /\ "count" \notin DOMAIN results[1] \/ results[1].count = None

MalformedLp(r) ==
    \/ "program" \notin DOMAIN r \/ r.program = NoneStr
    \/ "total_events" \notin DOMAIN r \/ r.total_events = None
    \/ "unique_teachers" \notin DOMAIN r \/ r.unique_teachers = None

\* The statements answered, every row lacking an expected field or holding
\* null in it.
AllMalformed ==
    CASE ret.op = "common_metrics.get_lp_engagement_metrics" ->
           /\ ret.args[1] # << >>
           /\ \A i \in 1..Len(ret.args[1]) : MalformedLp(ret.args[1][i])
      [] OTHER -> \A i \in 1..Len(ret.args) : MalformedCount(ret.args[i])

\* What the operation returns when its store is unreachable: every
\* statement answers with no row.
WhenUnreachable ==
    CASE ret.op = "islamabad_queries.get_teacher_count" ->
           islamabad_get_teacher_count_on(<< >>)
      [] ret.op = "rumi_queries.get_summary_metrics" ->
           rumi_get_summary_metrics_on(<< >>, << >>, << >>, << >>)
      [] ret.op = "common_metrics.get_lp_engagement_metrics" ->
           get_lp_engagement_metrics_on(<< >>)

\* C14: when the statements succeed but the rows lack an expected field or
\* hold null in it, the operation returns normally, without raising, the
\* value it returns when the store is unreachable.
C14_MalformedRowIsAFallback ==
    (ret.kind = "rows" /\ AllMalformed) => ret.out = WhenUnreachable

\* ------------------------------------------------------------------------
\* Properties of get_lp_engagement_metrics
\* ------------------------------------------------------------------------

\* C29: when the Moawin store cannot be used, so that the task statement
\* yields no rows, an execution of get_lp_engagement_metrics reports 2280,
\* the literal the operation declares as fallback, as Moawin's total_events.
C29_MoawinFallbackIs2280 ==
    (/\ ret.kind = "metric"
     /\ ret.op = "get_lp_engagement_metrics"
     /\ ret.executed
     /\ StoreUnusable("moawin_queries"))
        => ret.value.Moawin.total_events = 2280

\* ------------------------------------------------------------------------
\* Properties of memoized fallbacks
\* ------------------------------------------------------------------------

\* C26: a result stored less than the TTL ago, with no clear_all_caches
\* since, is returned unchanged by every call of its operation although the
\* stores would now give another result (the stored one was computed from
\* fallback constants while a store was unreachable, and the store has come
\* back); such a call runs no statement, asks for no client and leaves the
\* table as it was.
C26_FallbackServedUntilExpiry ==
    [][ MetricCallStep =>
          LET e == cache[ret'.op]
          IN  (/\ e.cached
               /\ now - e.at < CACHE_TTL
               /\ e.value # MetricBody(ret'.op))
                  => /\ ret'.value = e.value
                     /\ ~ret'.executed
                     /\ bigquery_client' = bigquery_client
                     /\ cache' = cache ]_vars

\* A call of get_observation_metrics has returned the stored record holding
\* the ICT fallback count 2423 while every store is up and populated.
C26_Witness ==
    /\ ret.kind = "metric"
    /\ ret.op = "get_observation_metrics"
    /\ ~ret.executed
    /\ ret.value.ICT.actual = 2423
    /\ Degraded(upstream) = {}
    /\ PSYCOPG2_AVAILABLE /\ BIGQUERY_AVAILABLE
    /\ get_observation_metrics.ICT.actual # 2423

\* ------------------------------------------------------------------------
\* Properties of the freshness banner
\* ------------------------------------------------------------------------

\* C27: in every reachable state, every stored value the memoization would
\* serve to a session was computed at or after the time that session's
\* banner shows as the last refresh.
C27_BannerNotFresherThanData ==
    \A s \in Sessions :
        session_state[s] # None =>
            \A op \in MetricOps :
                Fresh(cache[op]) => cache[op].at >= session_state[s]

\* ------------------------------------------------------------------------
\* Properties of the region identifiers
\* ------------------------------------------------------------------------

\* What the router operation `op` returns when called with the arguments
\* `args`, the region of the filter set replaced by `region`.
RoutedAs(op, args, region) ==
    LET f == [args[1] EXCEPT !.region = region]
    IN  CASE op = "get_summary_metrics" -> queries_get_summary_metrics(f)
          [] op = "get_fico_section_c_metrics" -> queries_get_fico_section_c_metrics(f)
          [] op = "get_fico_section_d_metrics" -> queries_get_fico_section_d_metrics(f)
          [] op = "get_fico_scores" -> queries_get_fico_scores(f)
          [] op = "get_observation_counts" -> queries_get_observation_counts(f)
          [] op = "get_observation_trend" -> queries_get_observation_trend(f, args[2])
          [] op = "get_school_count" -> queries_get_school_count(f)
          [] op = "get_teacher_count" -> queries_get_teacher_count(f)
          [] op = "get_student_count" -> queries_get_student_count(f)
          [] op = "get_recent_sessions" -> queries_get_recent_sessions(f, args[2])
          [] op = "get_student_scores_by_subject" -> queries_get_student_scores_by_subject(f)
          [] op = "get_attendance_trend" -> queries_get_attendance_trend(f, args[2])

\* C28: a router call with the tab key 'ICT' is routed to the Islamabad
\* adapter: it invokes what the call with region 'Islamabad' invokes and
\* returns what that call returns, not the operation's unknown-region
\* default.
C28_IctIsIslamabad ==
    (/\ ret.kind = "router"
     /\ "region" \in DOMAIN ret.args[1]
     /\ ret.args[1].region = "ICT")
        => ret.value = RoutedAs(ret.op, ret.args, "Islamabad")

\* C21: when the refresh job fails outside the refresh of the sources (the
\* snapshot file cannot be written), the process ends with code 2, which is
\* not the code of a partial failure.
C21_ScriptErrorExitsTwo ==
    (ret.kind = "refresh" /\ ~ret.written) => ret.exit = 2

\* ------------------------------------------------------------------------
\* Properties of the connections and clients
\* ------------------------------------------------------------------------

C30_NoConnectionLeftOpen ==
    ret.kind = "refresh" => ret.open = 0

\* ------------------------------------------------------------------------
\* Properties of the FICO analysis page
\* ------------------------------------------------------------------------

\* C22: for every region tab and every focus area, whatever record the
\* router returns for the region, rendering ends with a value or with a
\* placeholder on the page, never with an exception.
C22_RenderNeverRaises ==
    ret.kind = "page" => ~ret.out.raised

\* ------------------------------------------------------------------------
\* Properties of a statement in flight
\* ------------------------------------------------------------------------

\* C23: every call eventually returns, whatever the store does: a call
\* that has not returned yet can always take its next step, also when the
\* store is unreachable and when it accepts the connection and never
\* answers the statement, and however much time passes.
C23_CallCanAlwaysProceed ==
    (ret.kind = "query" /\ ret.phase # "returned") => ENABLED QueryProceeds

\* ------------------------------------------------------------------------
\* Properties of invalidation beside readers
\* ------------------------------------------------------------------------

\* C24: a reader of the six metrics beside which clear_all_caches runs is
\* served by the table as it was before the invalidation, all six entries,
\* or finds the table empty, all six entries; it never is served some
\* entries while finding the others cleared.
C24_ReaderSeesAllOrNothing ==
    (ret.kind = "all" /\ ret.pos = Len(AllOps))
        => \A i, j \in 1..Len(ret.hits) : ret.hits[i] = ret.hits[j]

====
